---- MODULE Spec2Model ----
(***************************************************************************)
(* Subway crowding dashboard: the data pipeline of data_loader.py          *)
(* (file discovery, encoding fallback, schema validation, wide-to-long     *)
(* reshape, time-label parsing, canonical sort) and its aggregation        *)
(* functions, driven as app.py drives them.                                *)
(*                                                                         *)
(* Text is modelled as a sequence of tokens.  A token is one character     *)
(* (a digit, a blank " ") or one Korean word of the source written as an   *)
(* ASCII gloss:                                                            *)
(*   "si" = the hour marker, "bun" = the minute marker of a time label,    *)
(*   "day_type", "line", "station_no", "departure", "updown" = the five    *)
(*   raw metadata headers, "station_name", "direction" = the two renamed   *)
(*   headers.                                                              *)
(* Numbers that pandas may hold as missing carry the marker NaN.           *)
(***************************************************************************)
EXTENDS Integers, Sequences, FiniteSets, TLC

VARIABLES
    files,          \* glob("*crowding*.csv") of the working directory, in glob order
    load_state,     \* "not_called" | "returned" | "raised": the call at app.py:44
    df,             \* first component of load_data's result ([present, rows])
    error_msg,      \* second component of load_data's result ([present, text])
    filtered_df,    \* the rows the aggregation functions are called on
    out,            \* the last step of the dashboard run: [fn, arg, val]
    time_str,       \* argument of a direct parse_time_column call
    parsed          \* its result: <<"unset">> or <<hour, minute, time_order>>

vars == <<files, load_state, df, error_msg, filtered_df, out, time_str, parsed>>

(***************************************************************************)
(* Bounds of the model.                                                    *)
(***************************************************************************)
MaxLen == 6         \* longest label typed into parse_time_column
MaxRows == 2        \* most data rows of a file of Spec
MaxLoadRows == 2    \* most data rows of a file of SpecLoad
MaxGroups == 11     \* most stations of a file of SpecRank
RankPeriod == 3     \* cells after which a column of a file of SpecRank repeats
MaxCalls == 3       \* most calls of load_data in a behaviour of SpecCache
MaxBuckets == 2     \* most time-bucket columns of a file of SpecDay

(***************************************************************************)
(* Missing values and text primitives.                                     *)
(***************************************************************************)
NaN == -1

\* a function on 1..n, held as the list of its values
ToSeq(f) == f \o <<>>

Digits == <<"0", "1", "2", "3", "4", "5", "6", "7", "8", "9">>

IsDigit(c) == \E n \in 1..10 : Digits[n] = c

DigitVal(c) == (CHOOSE n \in 1..10 : Digits[n] = c) - 1

\* int(<digits>)
RECURSIVE IntOf(_)
IntOf(s) ==
    IF s = <<>> THEN 0
    ELSE IntOf(SubSeq(s, 1, Len(s) - 1)) * 10 + DigitVal(s[Len(s)])

\* str.strip(): drop the blanks at both ends
RECURSIVE Strip(_)
Strip(s) ==
    IF s = <<>> THEN s
    ELSE IF Head(s) = " " THEN Strip(Tail(s))
    ELSE IF s[Len(s)] = " " THEN Strip(SubSeq(s, 1, Len(s) - 1))
    ELSE s

\* last index of the maximal run of digits that starts at i (i - 1: no digit at i)
RECURSIVE DigitRunEnd(_, _)
DigitRunEnd(s, i) ==
    IF i <= Len(s) /\ IsDigit(s[i]) THEN DigitRunEnd(s, i + 1) ELSE i - 1

\* re.search(r'(\d+)si(\d+)bun') can match with its first group starting at i
MatchAt(s, i) ==
    LET j == DigitRunEnd(s, i) IN
    /\ j >= i
    /\ j + 1 <= Len(s)
    /\ s[j + 1] = "si"
    /\ LET k == DigitRunEnd(s, j + 2) IN
       /\ k >= j + 2
       /\ k + 1 <= Len(s)
       /\ s[k + 1] = "bun"

\* the leftmost match of the pattern: <<first, last>> indices of both groups
SearchTime(s) ==
    LET i == CHOOSE a \in 1..Len(s) :
                 MatchAt(s, a) /\ \A b \in 1..(a - 1) : ~MatchAt(s, b)
        j == DigitRunEnd(s, i)
        k == DigitRunEnd(s, j + 2)
    IN  [hour |-> SubSeq(s, i, j), minute |-> SubSeq(s, j + 2, k)]

\* A match of the pattern against the whole label (re.fullmatch).
HasTime_WholeLabel(s) ==
    /\ s # <<>>
    /\ MatchAt(s, 1)
    /\ DigitRunEnd(s, DigitRunEnd(s, 1) + 2) + 1 = Len(s)

HasTime(s) == \E a \in 1..Len(s) : MatchAt(s, a)

\* The rollover of parse_time_column without its hour == 0 branch.
Rollover_NoRemap(hour) == hour

\* data_loader.py:71-72
Rollover(hour) == IF hour = 0 THEN 24 ELSE hour

\* parse_time_column: <<hour, minute>>, <<NaN, NaN>> for (None, None)
\* A parser that reads a label it cannot parse as midnight.
parse_time_column_Midnight(s) ==
    IF HasTime(s)
    THEN <<Rollover(IntOf(SearchTime(s).hour)), IntOf(SearchTime(s).minute)>>
    ELSE <<24, 0>>

parse_time_column(s) ==
    IF HasTime(s)
    THEN LET m == SearchTime(s)
         IN  <<Rollover(IntOf(m.hour)), IntOf(m.minute)>>
    ELSE <<NaN, NaN>>

\* df_long['hour'] * 60 + df_long['minute'], missing when either is
TimeOrder(hour, minute) ==
    IF hour = NaN \/ minute = NaN THEN NaN ELSE hour * 60 + minute

(***************************************************************************)
(* The source file and its loading (data_loader.py:15-155).                *)
(*                                                                         *)
(* A file is [enc, columns, rows]: enc[i] is what pd.read_csv does under   *)
(* the i-th encoding ("ok", "decode_error" = UnicodeDecodeError, "error" = *)
(* any other exception); columns are the header cells as written; rows     *)
(* hold one value per column, every value as the text of its CSV cell.     *)
(***************************************************************************)
encodings == <<"cp949", "euc-kr", "utf-8">>

expected_meta_cols ==
    << <<"day_type">>, <<"line">>, <<"station_no">>, <<"departure">>, <<"updown">> >>

renamed_meta_cols ==
    << <<"day_type">>, <<"line">>, <<"station_no">>, <<"station_name">>, <<"direction">> >>

value_name == <<"crowding">>

InSeq(x, s) == \E i \in 1..Len(s) : s[i] = x

ColIndex(cols, name) == CHOOSE i \in 1..Len(cols) : cols[i] = name

\* find_csv_file: files[0] of the glob, 0 for None
find_csv_file(fs) == IF fs # <<>> THEN 1 ELSE 0

\* A reader that moves on to the next encoding after any failure.
RECURSIVE TryEncodings_SkipAnyFailure(_, _)
TryEncodings_SkipAnyFailure(file, i) ==
    IF i > Len(encodings)
    THEN [ok |-> FALSE, error |-> <<"unsupported_encodings">> \o encodings]
    ELSE IF file.enc[i] = "ok"
    THEN [ok |-> TRUE, error |-> <<>>]
    ELSE TryEncodings_SkipAnyFailure(file, i + 1)

\* load_csv_with_encoding, from the i-th encoding on
RECURSIVE TryEncodings(_, _)
TryEncodings(file, i) ==
    IF i > Len(encodings)
    THEN [ok |-> FALSE, error |-> <<"unsupported_encodings">> \o encodings]
    ELSE IF file.enc[i] = "ok"
    THEN [ok |-> TRUE, error |-> <<>>]
    ELSE IF file.enc[i] = "decode_error"
    THEN TryEncodings(file, i + 1)
    ELSE [ok |-> FALSE, error |-> <<"read_error", encodings[i]>>]

load_csv_with_encoding(file) == TryEncodings(file, 1)

\* Headers taken as they stand in the file.
StripColumns_AsWritten(cols) == cols

\* df_raw.columns.str.strip()
StripColumns(cols) == [i \in 1..Len(cols) |-> Strip(cols[i])]

\* rename(columns={departure: station_name, updown: direction})
RenameColumn(c) ==
    IF c = <<"departure">> THEN <<"station_name">>
    ELSE IF c = <<"updown">> THEN <<"direction">>
    ELSE c

RenameColumns(cols) == [i \in 1..Len(cols) |-> RenameColumn(cols[i])]

missing_cols(cols) == SelectSeq(expected_meta_cols, LAMBDA c : ~InSeq(c, cols))

\* Time columns taken against the names before the renaming.
time_cols_RawNames(cols) == SelectSeq(cols, LAMBDA c : ~InSeq(c, expected_meta_cols))

time_cols(cols) == SelectSeq(cols, LAMBDA c : ~InSeq(c, renamed_meta_cols))

\* astype(str) of a cell: a blank cell was read as NaN and prints as "nan"
AsStr(cell) == IF cell = <<>> THEN <<"n", "a", "n">> ELSE cell

\* pd.to_numeric(errors='coerce') of stripped text
to_numeric(s) ==
    IF s # <<>> /\ \A i \in 1..Len(s) : IsDigit(s[i]) THEN IntOf(s) ELSE NaN

\* data_loader.py:134-135
CleanCrowding(cell) == to_numeric(Strip(AsStr(cell)))

\* One long row: the wide row r under the time column c.
LongRow(cols, r, c) ==
    LET hm == parse_time_column(c) IN
    [ day_type     |-> r[ColIndex(cols, <<"day_type">>)],
      line         |-> r[ColIndex(cols, <<"line">>)],
      station_no   |-> r[ColIndex(cols, <<"station_no">>)],
      station_name |-> r[ColIndex(cols, <<"station_name">>)],
      direction    |-> r[ColIndex(cols, <<"direction">>)],
      time         |-> c,
      crowding     |-> CleanCrowding(r[ColIndex(cols, c)]),
      hour         |-> hm[1],
      minute       |-> hm[2],
      time_order   |-> TimeOrder(hm[1], hm[2]) ]

\* A melt that loses the last time-bucket column.
melt_DropLastColumn(cols, rows) ==
    LET tc == time_cols(cols)
        M  == Len(rows)
    IN  ToSeq([n \in 1..(M * (Len(tc) - 1)) |->
            LongRow(cols, rows[((n - 1) % M) + 1], tc[((n - 1) \div M) + 1])])

\* pd.melt plus the cleaning and parsing of data_loader.py:124-143: column
\* after column, each column top to bottom
melt(cols, rows) ==
    LET tc == time_cols(cols)
        M  == Len(rows)
    IN  ToSeq([n \in 1..(M * Len(tc)) |->
            LongRow(cols, rows[((n - 1) % M) + 1], tc[((n - 1) \div M) + 1])])

\* a missing sort key goes last (na_position='last')
KeyLess(a, b) == a # NaN /\ (b = NaN \/ a < b)

\* the order of text values: character by character, a prefix first
Chars == Digits \o <<"a", "b", "c", "d">>

Code(c) == CHOOSE n \in 1..Len(Chars) : Chars[n] = c

RECURSIVE TextLess(_, _)
TextLess(a, b) ==
    IF b = <<>> THEN FALSE
    ELSE IF a = <<>> THEN TRUE
    ELSE IF Code(Head(a)) # Code(Head(b)) THEN Code(Head(a)) < Code(Head(b))
    ELSE TextLess(Tail(a), Tail(b))

\* station numbers are read as integers
NumLess(a, b) == IntOf(a) < IntOf(b)

\* by=[line, station_no, day_type, direction, time_order]
CanonicalLess(a, b) ==
    \/ TextLess(a.line, b.line)
    \/ /\ a.line = b.line
       /\ \/ NumLess(a.station_no, b.station_no)
          \/ /\ a.station_no = b.station_no
             /\ \/ TextLess(a.day_type, b.day_type)
                \/ /\ a.day_type = b.day_type
                   /\ \/ TextLess(a.direction, b.direction)
                      \/ /\ a.direction = b.direction
                         /\ KeyLess(a.time_order, b.time_order)

\* A table left in the order of the reshape.
sort_values_AsMelted(rows) == rows

\* data_loader.py:151-153: a sort on several columns is stable, equal keys keep
\* their order
sort_values(rows) ==
    LET t == ToSeq(rows)
        n == Len(t)
        pos == ToSeq([i \in 1..n |->
                  Cardinality({j \in 1..n :
                      \/ CanonicalLess(t[j], t[i])
                      \/ (~CanonicalLess(t[i], t[j]) /\ j < i)}) + 1])
    IN  ToSeq([p \in 1..n |-> t[CHOOSE i \in 1..n : pos[i] = p]])

ReturnTable(rows) ==
    [state |-> "returned",
     df    |-> [present |-> TRUE, rows |-> rows],
     error |-> [present |-> FALSE, text |-> <<>>]]

ReturnError(text) ==
    [state |-> "returned",
     df    |-> [present |-> FALSE, rows |-> <<>>],
     error |-> [present |-> TRUE, text |-> text]]

Raised == [state |-> "raised",
           df    |-> [present |-> FALSE, rows |-> <<>>],
           error |-> [present |-> FALSE, text |-> <<>>]]

\* pd.melt refuses a frame that already has a column named value_name
\* (ValueError since pandas 2.0, a warning before): a build may raise there.
MeltMayRaise(cols) == InSeq(value_name, cols)

\* load_data; melt_raises is the choice of the installed pandas
load_data(fs, melt_raises) ==
    IF find_csv_file(fs) = 0
    THEN ReturnError(<<"no_csv_file">>)
    ELSE
      LET file == fs[find_csv_file(fs)]
          read == load_csv_with_encoding(file)
      IN
      IF read.error # <<>>
      THEN ReturnError(read.error)
      ELSE
        LET stripped == StripColumns(file.columns)
            missing  == missing_cols(stripped)
        IN
        IF missing # <<>>
        THEN ReturnError(<<"missing_columns">> \o missing)
        ELSE
          LET cols == RenameColumns(stripped) IN
          IF time_cols(cols) = <<>>
          THEN ReturnError(<<"no_time_columns">>)
          ELSE IF MeltMayRaise(cols) /\ melt_raises
          THEN Raised
          ELSE ReturnTable(sort_values(melt(cols, file.rows)))

NoFiles == <<>>
NoTable == [present |-> FALSE, rows |-> <<>>]
NoError == [present |-> FALSE, text |-> <<>>]
NoCall == [fn |-> "none", arg |-> <<>>, val |-> <<>>]
Unset == <<"unset">>

(***************************************************************************)
(* Aggregation functions (data_loader.py:188-639).  A mean is a reduced    *)
(* fraction <<numerator, denominator>>; NaNMean is the mean of no value.   *)
(* An empty DataFrame is the empty sequence.                               *)
(***************************************************************************)
RECURSIVE GCD(_, _)
GCD(a, b) == IF b = 0 THEN a ELSE GCD(b, a % b)

Frac(n, d) == LET g == GCD(n, d) IN <<n \div g, d \div g>>

NaNMean == <<0, 0>>

Zero == <<0, 1>>

\* a < b for two defined fractions
FracLess(a, b) == a[1] * b[2] < b[1] * a[2]

\* df.dropna(subset=['crowding'])
dropna(rows) == SelectSeq(rows, LAMBDA r : r.crowding # NaN)

RECURSIVE SumCrowding(_)
SumCrowding(rows) ==
    IF rows = <<>> THEN 0 ELSE Head(rows).crowding + SumCrowding(Tail(rows))

\* A mean that counts a missing value as 0.
mean_MissingAsZero(rows) ==
    IF rows = <<>> THEN NaNMean
    ELSE Frac(SumCrowding(dropna(rows)), Len(rows))

\* Series.mean(): over the values that are not missing
mean(rows) ==
    LET valid == dropna(rows) IN
    IF valid = <<>> THEN NaNMean ELSE Frac(SumCrowding(valid), Len(valid))

\* Series.max() of rows without missing values
MaxOf(valid) ==
    CHOOSE v \in {valid[i].crowding : i \in 1..Len(valid)} :
        \A i \in 1..Len(valid) : valid[i].crowding <= v

\* Series.max(): missing when every value is
max(rows) == IF dropna(rows) = <<>> THEN NaN ELSE MaxOf(dropna(rows))

\* valid[valid['crowding'] == peak].iloc[0]
FirstWith(valid, peak) ==
    valid[CHOOSE i \in 1..Len(valid) :
              /\ valid[i].crowding = peak
              /\ \A j \in 1..(i - 1) : valid[j].crowding # peak]

\* the body shared by calculate_peak and the get_peak_info closures:
\* <<peak crowding, peak time>>, (0.0, "-") without a value
PeakOf(rows) ==
    LET valid == dropna(rows) IN
    IF valid = <<>> THEN <<0, <<"-">>>>
    ELSE LET peak == MaxOf(valid) IN <<peak, FirstWith(valid, peak).time>>

calculate_peak(rows) == PeakOf(rows)

\* A window whose upper edge is always exclusive.
InWindow_Exclusive(hour, lo, hi, inclusive) ==
    hour # NaN /\ hour >= lo /\ hour < hi

\* (df['hour'] >= lo) & (df['hour'] <= hi), resp. < hi; a missing hour compares
\* false
InWindow(hour, lo, hi, inclusive) ==
    /\ hour # NaN
    /\ hour >= lo
    /\ IF inclusive THEN hour <= hi ELSE hour < hi

commute_rows(rows, include_9) ==
    SelectSeq(rows, LAMBDA r : InWindow(r.hour, 7, 9, include_9))

evening_rows(rows, include_20) ==
    SelectSeq(rows, LAMBDA r : InWindow(r.hour, 17, 20, include_20))

\* A commute average without the two empty checks.
calculate_commute_avg_Unguarded(rows, include_9) ==
    mean(commute_rows(rows, include_9))

calculate_commute_avg(rows, include_9) ==
    IF rows = <<>> THEN Zero
    ELSE IF commute_rows(rows, include_9) = <<>> THEN Zero
    ELSE mean(commute_rows(rows, include_9))

calculate_evening_avg(rows, include_20) ==
    IF rows = <<>> THEN Zero
    ELSE IF evening_rows(rows, include_20) = <<>> THEN Zero
    ELSE mean(evening_rows(rows, include_20))

(***************************************************************************)
(* groupby: the distinct keys in ascending order, each with its rows in    *)
(* table order.                                                            *)
(***************************************************************************)
RECURSIVE TupleLess(_, _)
TupleLess(a, b) ==
    IF a = <<>> THEN FALSE
    ELSE IF Head(a) # Head(b) THEN TextLess(Head(a), Head(b))
    ELSE TupleLess(Tail(a), Tail(b))

\* the columns of the three groupby calls
Key4 == <<"line", "station_name", "direction", "day_type">>

Key2 == <<"line", "station_name">>

Key1 == <<"line">>

\* the group key of a row: its values in the columns by
KeyOf(r, by) == ToSeq([c \in 1..Len(by) |-> r[by[c]]])

\* the keys of S in ascending order
RECURSIVE SortedKeys(_)
SortedKeys(S) ==
    IF S = {} THEN <<>>
    ELSE LET least == CHOOSE k \in S : \A j \in S : ~TupleLess(j, k)
         IN  <<least>> \o SortedKeys(S \ {least})

GroupKeys(rows, by) == SortedKeys({KeyOf(rows[i], by) : i \in 1..Len(rows)})

GroupRows(rows, by, k) == SelectSeq(rows, LAMBDA r : KeyOf(r, by) = k)

(***************************************************************************)
(* sort_values(<one column>, ascending=False): the default kind is         *)
(* quicksort, which does not promise the order of equal values; ties is    *)
(* the order the build gives them ("kept": as before the sort, "reversed": *)
(* the other way round).  Missing values go last, in their order.          *)
(***************************************************************************)
TieOrders == {"kept", "reversed"}

\* the value of a column as a fraction; a peak is a whole number
ValueOf(r, column) == IF column = "peak" THEN <<r.peak, 1>> ELSE r[column]

\* A sort that leaves the rows as they are.
SortDescending_AsGrouped(s, column, ties) == s

\* A sort that puts the smallest value first.
SortDescending_Ascending(s, column, ties) ==
    LET t == ToSeq([i \in 1..Len(s) |-> ValueOf(s[i], column)])
        n == Len(t)
        val == {i \in 1..n : t[i] # NaNMean}
        pos == ToSeq([i \in 1..n |->
                  IF i \in val
                  THEN Cardinality({j \in val :
                          \/ FracLess(t[j], t[i])
                          \/ /\ ~FracLess(t[i], t[j])
                             /\ IF ties = "kept" THEN j < i ELSE j > i}) + 1
                  ELSE Cardinality(val)
                       + Cardinality({j \in (1..n) \ val : j < i}) + 1])
    IN  ToSeq([p \in 1..n |-> s[CHOOSE i \in 1..n : pos[i] = p]])

SortDescending(s, column, ties) ==
    LET t == ToSeq([i \in 1..Len(s) |-> ValueOf(s[i], column)])
        n == Len(t)
        val == {i \in 1..n : t[i] # NaNMean}
        pos == ToSeq([i \in 1..n |->
                  IF i \in val
                  THEN Cardinality({j \in val :
                          \/ FracLess(t[i], t[j])
                          \/ /\ ~FracLess(t[j], t[i])
                             /\ IF ties = "kept" THEN j < i ELSE j > i}) + 1
                  ELSE Cardinality(val)
                       + Cardinality({j \in (1..n) \ val : j < i}) + 1])
    IN  ToSeq([p \in 1..n |-> s[CHOOSE i \in 1..n : pos[i] = p]])

\* A head that keeps one row more.
head_OneMore(s, n) == SubSeq(s, 1, IF Len(s) < n + 1 THEN Len(s) ELSE n + 1)

\* DataFrame.head(n)
head(s, n) == SubSeq(s, 1, IF Len(s) < n THEN Len(s) ELSE n)

\* Ranks that rows alike in all but their group key share (a dense rank).
Ranks_Dense(s) ==
    [i \in 1..Len(s) |->
        Cardinality({j \in 1..i :
            j = 1 \/ [s[j - 1] EXCEPT !.key = <<>>] # [s[j] EXCEPT !.key = <<>>]})]

\* range(1, len(df) + 1)
Ranks(s) == [i \in 1..Len(s) |-> i]

\* get_peak_top10: columns rank, line, station_name, bang_hyang (renamed from
\* direction), yoil (renamed from day_type), peak, peak_time
get_peak_top10(rows, ties) ==
    IF rows = <<>> THEN <<>>
    ELSE
      LET keys == GroupKeys(rows, Key4)
          peak_df == [g \in 1..Len(keys) |->
                        LET pk == PeakOf(GroupRows(rows, Key4, keys[g])) IN
                        [key |-> keys[g], peak |-> pk[1], peak_time |-> pk[2]]]
          top == head(SortDescending(peak_df, "peak", ties), 10)
          rank == Ranks(top)
      IN  [i \in 1..Len(top) |->
              [ rank |-> rank[i], line |-> top[i].key[1],
                station_name |-> top[i].key[2], bang_hyang |-> top[i].key[3],
                yoil |-> top[i].key[4], peak |-> top[i].peak,
                peak_time |-> top[i].peak_time ]]

\* the shared body of get_commute_top10 and get_evening_top10 from the
\* time-filtered rows on: columns rank, line, station_name, bang_hyang, yoil, avg
WindowTop10(time_filtered, ties) ==
    IF time_filtered = <<>> THEN <<>>
    ELSE
      LET keys == GroupKeys(time_filtered, Key4)
          avg_df == [g \in 1..Len(keys) |->
                       [key |-> keys[g],
                        avg |-> mean(GroupRows(time_filtered, Key4, keys[g]))]]
          top == head(SortDescending(avg_df, "avg", ties), 10)
          rank == Ranks(top)
      IN  [i \in 1..Len(top) |->
              [ rank |-> rank[i], line |-> top[i].key[1],
                station_name |-> top[i].key[2], bang_hyang |-> top[i].key[3],
                yoil |-> top[i].key[4], avg |-> top[i].avg ]]

get_commute_top10(rows, include_9, ties) ==
    IF rows = <<>> THEN <<>> ELSE WindowTop10(commute_rows(rows, include_9), ties)

get_evening_top10(rows, include_20, ties) ==
    IF rows = <<>> THEN <<>> ELSE WindowTop10(evening_rows(rows, include_20), ties)

\* the left merge of a per-group window mean and fillna(0): 0 for a group
\* without a row in the window and for a missing mean
\* A window mean that is left missing.
FilledWindowMean_LeftMissing(window_rows, by, k) ==
    mean(GroupRows(window_rows, by, k))

FilledWindowMean(window_rows, by, k) ==
    LET m == mean(GroupRows(window_rows, by, k)) IN
    IF m = NaNMean THEN Zero ELSE m

\* get_line_summary: one row per line, in line order
get_line_summary(rows, include_9, include_20) ==
    IF rows = <<>> THEN <<>>
    ELSE
      LET keys == GroupKeys(rows, Key1) IN
      [g \in 1..Len(keys) |->
          LET grp == GroupRows(rows, Key1, keys[g]) IN
          [ line |-> keys[g][1],
            mean_crowding |-> mean(grp),
            peak |-> max(grp),
            commute_avg |->
                FilledWindowMean(commute_rows(rows, include_9), Key1, keys[g]),
            evening_avg |->
                FilledWindowMean(evening_rows(rows, include_20), Key1, keys[g]) ]]

\* A station summary with one row per line, station and direction.
get_station_peak_summary_PerDirection(rows, ties) ==
    IF rows = <<>> THEN <<>>
    ELSE
      LET by == <<"line", "station_name", "direction">>
          keys == GroupKeys(rows, by)
          station_df == [g \in 1..Len(keys) |->
                           LET pk == PeakOf(GroupRows(rows, by, keys[g])) IN
                           [ line |-> keys[g][1], station_name |-> keys[g][2],
                             peak |-> pk[1], peak_time |-> pk[2] ]]
      IN  SortDescending(station_df, "peak", ties)

\* get_station_peak_summary: one row per (line, station), by peak descending
get_station_peak_summary(rows, ties) ==
    IF rows = <<>> THEN <<>>
    ELSE
      LET keys == GroupKeys(rows, Key2)
          station_df == [g \in 1..Len(keys) |->
                           LET pk == PeakOf(GroupRows(rows, Key2, keys[g])) IN
                           [ line |-> keys[g][1], station_name |-> keys[g][2],
                             peak |-> pk[1], peak_time |-> pk[2] ]]
      IN  SortDescending(station_df, "peak", ties)

\* get_station_full_summary
get_station_full_summary(rows, include_9, include_20, ties) ==
    IF rows = <<>> THEN <<>>
    ELSE
      LET keys == GroupKeys(rows, Key2)
          station_summary ==
            [g \in 1..Len(keys) |->
                LET pk == PeakOf(GroupRows(rows, Key2, keys[g])) IN
                [ line |-> keys[g][1], station_name |-> keys[g][2],
                  peak |-> pk[1], peak_time |-> pk[2],
                  commute_avg |->
                      FilledWindowMean(commute_rows(rows, include_9), Key2, keys[g]),
                  evening_avg |->
                      FilledWindowMean(evening_rows(rows, include_20), Key2, keys[g]) ]]
      IN  SortDescending(station_summary, "peak", ties)

\* the station -> {lat, lng} table of station_coords.py, by station name
STATION_COORDS ==
    [name \in {<<"a">>, <<"b">>} |->
        IF name = <<"a">> THEN [lat |-> 1, lng |-> 1] ELSE [lat |-> 2, lng |-> 2]]

MapKinds == {"average", "peak", "commute", "evening"}

\* get_station_crowding_for_map: the per-station scalar (a fraction here, also
\* for a peak), joined with the coordinates, by scalar descending
get_station_crowding_for_map(rows, crowding_type, include_9, include_20, ties) ==
    IF rows = <<>> THEN <<>>
    ELSE
      LET source ==
            IF crowding_type = "commute" THEN commute_rows(rows, include_9)
            ELSE IF crowding_type = "evening" THEN evening_rows(rows, include_20)
            ELSE rows
      IN
      IF crowding_type \in {"commute", "evening"} /\ source = <<>> THEN <<>>
      ELSE
        LET keys == GroupKeys(source, Key2)
            station_crowding ==
              [g \in 1..Len(keys) |->
                  [ line |-> keys[g][1], station_name |-> keys[g][2],
                    crowding_value |->
                        IF crowding_type = "peak"
                        THEN Frac(PeakOf(GroupRows(source, Key2, keys[g]))[1], 1)
                        ELSE mean(GroupRows(source, Key2, keys[g])) ]]
            found == SelectSeq(station_crowding,
                         LAMBDA r : r.station_name \in DOMAIN STATION_COORDS)
            coords_list ==
              [i \in 1..Len(found) |->
                  [ line |-> found[i].line, station_name |-> found[i].station_name,
                    crowding_value |-> found[i].crowding_value,
                    lat |-> STATION_COORDS[found[i].station_name].lat,
                    lng |-> STATION_COORDS[found[i].station_name].lng ]]
        IN  IF coords_list = <<>> THEN <<>>
            ELSE SortDescending(coords_list, "crowding_value", ties)

(***************************************************************************)
(* The call of load_data at app.py:44.  st.cache_data keeps the result of  *)
(* the first call, so the body runs while nothing has been returned yet.   *)
(***************************************************************************)
LoadData ==
    /\ load_state = "not_called"
    /\ \E melt_raises \in BOOLEAN :
         LET r == load_data(files, melt_raises) IN
         /\ load_state' = r.state
         /\ df' = r.df
         /\ error_msg' = r.error
    /\ UNCHANGED <<files, filtered_df, out, time_str, parsed>>

(***************************************************************************)
(* Input files.  A logical row is [meta, cells]; MakeFile lays it out      *)
(* under the header cells as the CSV has them.                             *)
(***************************************************************************)
SeqsUpTo(S, n) == UNION {[1..k -> S] : k \in 0..n}

MetaValue(meta, name) ==
    IF name = <<"day_type">> THEN meta.day_type
    ELSE IF name = <<"line">> THEN meta.line
    ELSE IF name = <<"station_no">> THEN meta.station_no
    ELSE IF name \in {<<"departure">>, <<"station_name">>} THEN meta.station_name
    ELSE meta.direction

MakeFile(enc, metaHeader, timeHeader, lrows) ==
    LET nm == Len(metaHeader) IN
    [ enc     |-> enc,
      columns |-> metaHeader \o timeHeader,
      rows    |-> [i \in 1..Len(lrows) |->
                      [k \in 1..(nm + Len(timeHeader)) |->
                          IF k <= nm
                          THEN MetaValue(lrows[i].meta, Strip(metaHeader[k]))
                          ELSE lrows[i].cells[k - nm]]] ]

Readable == <<"ok", "ok", "ok">>

L0030 == <<"0", "si", "3", "0", "bun">>
L0830 == <<"8", "si", "3", "0", "bun">>
L2330 == <<"2", "3", "si", "3", "0", "bun">>
LPadded0700 == <<" ", "0", "7", "si", "0", "0", "bun", " ">>
LNoTime == <<"total">>

Meta(day, line, no, name, dir) ==
    [day_type |-> day, line |-> line, station_no |-> no, station_name |-> name,
     direction |-> dir]

StationA == Meta(<<"1">>, <<"1">>, <<"2">>, <<"a">>, <<"1">>)
StationB == Meta(<<"1">>, <<"1">>, <<"1">>, <<"b">>, <<"1">>)

PaddedHeader ==
    << <<" ", "day_type">>, <<"line", " ">>, <<"station_no">>,
       <<" ", "departure", " ">>, <<"updown">> >>

LoadMetaHeaders ==
    { expected_meta_cols,
      PaddedHeader,
      << <<"updown">>, <<"departure">>, <<"station_no">>, <<"line">>, <<"day_type">> >>,
      << <<"day_type">>, <<"line">>, <<"station_no">>, <<"updown">> >>,
      << <<"line">>, <<"station_name">>, <<"direction">> >>,
      << <<" ", "day_type", " ">>, <<"line">>, <<"updown", " ">> >> }

LoadTimeHeaders ==
    { <<>>, <<L0830>>, <<LPadded0700, L0030>>, <<LNoTime>>, <<LNoTime, L2330>>,
      <<value_name>>, <<L0830, value_name>>, << <<"station_name">> >> }

LoadCellPool == { <<>>, <<"1", "2">>, <<" ", "7", " ">>, <<"x">> }

LoadRowPool(T) ==
    {[meta |-> m, cells |-> c] : m \in {StationA, StationB}, c \in [1..T -> LoadCellPool]}

ReshapeFiles ==
    {MakeFile(Readable, expected_meta_cols, th, lrows) :
        th \in {<<L0830>>}, lrows \in SeqsUpTo(LoadRowPool(1), MaxLoadRows)}
    \cup
    {MakeFile(Readable, expected_meta_cols, th, lrows) :
        th \in {<<L2330, L0030>>}, lrows \in SeqsUpTo(LoadRowPool(2), MaxLoadRows)}

HeaderFiles ==
    {MakeFile(Readable, mh, th, lrows) :
        mh \in LoadMetaHeaders, th \in LoadTimeHeaders,
        lrows \in {<<>>, <<[meta |-> StationA, cells |-> <<<<"5">>, <<>> >>]>>}}

EncodingFiles ==
    {MakeFile(enc, expected_meta_cols, <<L0830>>,
              <<[meta |-> StationA, cells |-> <<<<"5">>>>]>>) :
        enc \in [1..3 -> {"ok", "decode_error", "error"}]}

\* files that may fail at several stages at once
CacheRow == [meta |-> StationA, cells |-> << <<"5">>, <<>> >>]
CacheRowOther == [meta |-> StationB, cells |-> << <<"7">>, <<"1">> >>]

CacheFiles ==
    {MakeFile(enc, mh, th, <<row>>) :
        enc \in {Readable, <<"decode_error", "error", "ok">>},
        mh \in {expected_meta_cols,
                << <<"day_type">>, <<"line">>, <<"station_no">>, <<"updown">> >>},
        th \in {<<>>, <<L0830>>, <<L0830, value_name>>},
        row \in {CacheRow, CacheRowOther}}

LoadFiles == ReshapeFiles \cup HeaderFiles \cup EncodingFiles \cup CacheFiles

InitLoad ==
    /\ files \in {NoFiles} \cup {<<f>> : f \in LoadFiles}
    /\ load_state = "not_called"
    /\ df = NoTable
    /\ error_msg = NoError
    /\ filtered_df = <<>>
    /\ out = NoCall
    /\ time_str = <<>>
    /\ parsed = Unset

SpecLoad == InitLoad /\ [][LoadData]_vars

(***************************************************************************)
(* The dashboard run after a successful load (app.py:63-155, 590): the     *)
(* sidebar selection filters the table, the aggregation functions are      *)
(* called on the filtered rows.                                            *)
(***************************************************************************)
\* Series.str.contains(pat, na=False): pat is a regular expression (regex=True
\* is the default) searched for anywhere in the text; of the special
\* characters the model has ".", which stands for any one character.
str_contains(text, pat) ==
    \E i \in 0..(Len(text) - Len(pat)) :
        \A k \in 1..Len(pat) : pat[k] = "." \/ text[i + k] = pat[k]

\* app.py:117-133: filtered_df = df.copy(), then one mask per non-empty selection
ApplySelection(rows, days, lines, directions, station_search) ==
    LET by_day  == IF days # {}
                   THEN SelectSeq(rows, LAMBDA r : r.day_type \in days) ELSE rows
        by_line == IF lines # {}
                   THEN SelectSeq(by_day, LAMBDA r : r.line \in lines) ELSE by_day
        by_dir  == IF directions # {}
                   THEN SelectSeq(by_line, LAMBDA r : r.direction \in directions)
                   ELSE by_line
    IN  IF station_search # <<>>
        THEN SelectSeq(by_dir, LAMBDA r : str_contains(r.station_name, station_search))
        ELSE by_dir

SearchPool == {<<>>, <<"a">>, <<".">>}

Called(fn, arg, val) == [fn |-> fn, arg |-> arg, val |-> val]

\* The sidebar widgets (app.py:63-92): the options are the values of the loaded
\* table.  Every run of the script starts from the loaded (cached) table and
\* the widgets' current values, whatever ran before, so the selection is taken
\* from the loaded state.
SelectFilters ==
    /\ load_state = "returned"
    /\ df.present
    /\ out.fn = "none"
    /\ \E days \in SUBSET {df.rows[i].day_type : i \in 1..Len(df.rows)},
          lines \in SUBSET {df.rows[i].line : i \in 1..Len(df.rows)},
          directions \in SUBSET {df.rows[i].direction : i \in 1..Len(df.rows)},
          station_search \in SearchPool :
         out' = Called("select", <<days, lines, directions, station_search>>, <<>>)
    /\ UNCHANGED <<files, load_state, df, error_msg, filtered_df, time_str, parsed>>

\* A filter that works on the loaded table itself instead of a copy of it.
ApplyFilter_InPlace ==
    /\ out.fn = "select"
    /\ filtered_df' = ApplySelection(df.rows, out.arg[1], out.arg[2], out.arg[3],
                                     out.arg[4])
    /\ df' = [df EXCEPT !.rows = filtered_df']
    /\ out' = Called("filter", <<>>, <<>>)
    /\ UNCHANGED <<files, load_state, error_msg, time_str, parsed>>

\* app.py:117-133 under the selection made
ApplyFilter ==
    /\ out.fn = "select"
    /\ filtered_df' = ApplySelection(df.rows, out.arg[1], out.arg[2], out.arg[3],
                                     out.arg[4])
    /\ out' = Called("filter", <<>>, <<>>)
    /\ UNCHANGED <<files, load_state, df, error_msg, time_str, parsed>>

\* An aggregation function is called on the filtered table.  The functions read
\* filtered_df only and out keeps the last call only, so a call made after
\* another call ends in the state the same call ends in when made right after
\* the filter: each call is taken from there.
CanCall == load_state = "returned" /\ df.present /\ out.fn = "filter"

Frame == UNCHANGED <<files, load_state, df, error_msg, filtered_df, time_str, parsed>>

CalculatePeak ==
    /\ CanCall
    /\ out' = Called("calculate_peak", <<>>, calculate_peak(filtered_df))
    /\ Frame

CalculateCommuteAvg ==
    /\ CanCall
    /\ \E include_9 \in BOOLEAN :
         out' = Called("calculate_commute_avg", <<include_9>>,
                       calculate_commute_avg(filtered_df, include_9))
    /\ Frame

CalculateEveningAvg ==
    /\ CanCall
    /\ \E include_20 \in BOOLEAN :
         out' = Called("calculate_evening_avg", <<include_20>>,
                       calculate_evening_avg(filtered_df, include_20))
    /\ Frame

GetPeakTop10 ==
    /\ CanCall
    /\ \E ties \in TieOrders :
         out' = Called("get_peak_top10", <<>>, get_peak_top10(filtered_df, ties))
    /\ Frame

GetCommuteTop10 ==
    /\ CanCall
    /\ \E include_9 \in BOOLEAN, ties \in TieOrders :
         out' = Called("get_commute_top10", <<include_9>>,
                       get_commute_top10(filtered_df, include_9, ties))
    /\ Frame

GetEveningTop10 ==
    /\ CanCall
    /\ \E include_20 \in BOOLEAN, ties \in TieOrders :
         out' = Called("get_evening_top10", <<include_20>>,
                       get_evening_top10(filtered_df, include_20, ties))
    /\ Frame

GetLineSummary ==
    /\ CanCall
    /\ \E include_9 \in BOOLEAN, include_20 \in BOOLEAN :
         out' = Called("get_line_summary", <<include_9, include_20>>,
                       get_line_summary(filtered_df, include_9, include_20))
    /\ Frame

GetStationPeakSummary ==
    /\ CanCall
    /\ \E ties \in TieOrders :
         out' = Called("get_station_peak_summary", <<>>,
                       get_station_peak_summary(filtered_df, ties))
    /\ Frame

GetStationFullSummary ==
    /\ CanCall
    /\ \E include_9 \in BOOLEAN, include_20 \in BOOLEAN, ties \in TieOrders :
         out' = Called("get_station_full_summary", <<include_9, include_20>>,
                       get_station_full_summary(filtered_df, include_9, include_20, ties))
    /\ Frame

GetStationCrowdingForMap ==
    /\ CanCall
    /\ \E crowding_type \in MapKinds, include_9 \in BOOLEAN, include_20 \in BOOLEAN,
          ties \in TieOrders :
         out' = Called("get_station_crowding_for_map",
                       <<crowding_type, include_9, include_20>>,
                       get_station_crowding_for_map(filtered_df, crowding_type,
                                                    include_9, include_20, ties))
    /\ Frame

\* A widget changes and the script runs again from the top: load_data hands
\* out the loaded table and the names of the previous run are bound anew.
Rerun ==
    /\ load_state = "returned"
    /\ df.present
    /\ out.fn \notin {"none", "select"}
    /\ out' = NoCall
    /\ filtered_df' = <<>>
    /\ UNCHANGED <<files, load_state, df, error_msg, time_str, parsed>>

Next ==
    \/ LoadData
    \/ SelectFilters
    \/ ApplyFilter
    \/ CalculatePeak
    \/ CalculateCommuteAvg
    \/ CalculateEveningAvg
    \/ GetPeakTop10
    \/ GetCommuteTop10
    \/ GetEveningTop10
    \/ GetLineSummary
    \/ GetStationPeakSummary
    \/ GetStationFullSummary
    \/ GetStationCrowdingForMap
    \/ Rerun

(***************************************************************************)
(* Spec: files of up to MaxRows stations under three headers, with blank   *)
(* and numeric cells.                                                      *)
(***************************************************************************)
L0700 == <<"7", "si", "0", "0", "bun">>
L0900 == <<"9", "si", "0", "0", "bun">>
L1700 == <<"1", "7", "si", "0", "0", "bun">>
L2000 == <<"2", "0", "si", "0", "0", "bun">>

Station1 == Meta(<<"1">>, <<"1">>, <<"1">>, <<"a">>, <<"1">>)
Station2 == Meta(<<"1">>, <<"1">>, <<"2">>, <<"b">>, <<"1">>)
Station3 == Meta(<<"1">>, <<"2">>, <<"3">>, <<"c">>, <<"1">>)

StationPool == <<Station1, Station2, Station3>>

TimeHeaders == { <<L0900, L0700>>, <<L1700, L2000>>, <<L0030, LNoTime>> }

CellPool == { <<>>, <<"1">>, <<"2">> }

\* the stations of a file: up to MaxRows of the pool, in pool order
StationChoices ==
    {ix \in SeqsUpTo(1..Len(StationPool), MaxRows) :
        \A i \in 1..(Len(ix) - 1) : ix[i] < ix[i + 1]}

Files ==
    {MakeFile(Readable, expected_meta_cols, th,
              [i \in 1..Len(ix) |-> [meta |-> StationPool[ix[i]], cells |-> cells[i]]]) :
        th \in TimeHeaders, ix \in StationChoices,
        cells \in [1..MaxRows -> [1..2 -> CellPool]]}

Init ==
    /\ files \in {<<f>> : f \in Files}
    /\ load_state = "not_called"
    /\ df = NoTable
    /\ error_msg = NoError
    /\ filtered_df = <<>>
    /\ out = NoCall
    /\ time_str = <<>>
    /\ parsed = Unset

Spec == Init /\ [][Next]_vars

(***************************************************************************)
(* SpecRank: files of up to MaxGroups stations of one line, day type and   *)
(* direction under one time bucket, at 07:00, 09:00 or 17:00; the cells    *)
(* down the column repeat a pattern of RankPeriod cells.  More groups than *)
(* the top-10 tables keep, with equal and with missing scalars among them. *)
(***************************************************************************)
Letters == <<"a", "b", "c", "d">>

\* station names in text order: aa, ab, ac, ad, ba, ...
RankName(i) == <<Letters[((i - 1) \div 4) + 1], Letters[((i - 1) % 4) + 1]>>

\* the decimal text of a number below 100
Numeral(i) ==
    IF i < 10 THEN <<Digits[i + 1]>>
    ELSE <<Digits[(i \div 10) + 1], Digits[(i % 10) + 1]>>

RankStation(i) == Meta(<<"1">>, <<"1">>, Numeral(i), RankName(i), <<"1">>)

RankTimeHeaders == { <<L0700>>, <<L0900>>, <<L1700>> }

RankFiles ==
    {MakeFile(Readable, expected_meta_cols, th,
              [i \in 1..n |->
                  [meta |-> RankStation(i),
                   cells |-> <<pattern[((i - 1) % RankPeriod) + 1]>>]]) :
        th \in RankTimeHeaders, n \in 0..MaxGroups,
        pattern \in [1..RankPeriod -> CellPool]}

InitRank ==
    /\ files \in {<<f>> : f \in RankFiles}
    /\ load_state = "not_called"
    /\ df = NoTable
    /\ error_msg = NoError
    /\ filtered_df = <<>>
    /\ out = NoCall
    /\ time_str = <<>>
    /\ parsed = Unset

NextRank ==
    \/ LoadData
    \/ SelectFilters
    \/ ApplyFilter
    \/ GetPeakTop10
    \/ GetCommuteTop10
    \/ GetEveningTop10

SpecRank == InitRank /\ [][NextRank]_vars

(***************************************************************************)
(* SpecReport: the PDF-report request of the dashboard on the files of     *)
(* SpecRank.  A table is a sequence of records keyed by column name, which *)
(* is what to_dict('records') returns; the key of the column the loader    *)
(* calls direction is "direction", the key of the column the top-10        *)
(* tables rename it to is "bang_hyang".  The request keeps its position in *)
(* out.fn and, in out.val, the report data, whether pdf_path is set, *)
(* whether the temporary file is on disk, whether its bytes were read, the  *)
(* direction cells the renderer printed and whether a delete failed.       *)
(***************************************************************************)
\* DataFrame.to_dict('records') of a top-10 table, [] for an empty one
safe_top10(top10_df) == IF top10_df = <<>> THEN <<>> ELSE top10_df

collect_report_data(rows, include_9, include_20, ties) ==
    [ kpi |-> [ peak_crowding |-> calculate_peak(rows)[1],
                peak_time |-> calculate_peak(rows)[2],
                commute_avg |-> calculate_commute_avg(rows, include_9),
                evening_avg |-> calculate_evening_avg(rows, include_20) ],
      top10 |-> [ peak |-> safe_top10(get_peak_top10(rows, ties[1])),
                  commute |-> safe_top10(get_commute_top10(rows, include_9, ties[2])),
                  evening |-> safe_top10(get_evening_top10(rows, include_20, ties[3])) ] ]

\* dict.get(key, default)
dict_get(record, key, default) ==
    IF key \in DOMAIN record THEN record[key] ELSE default

NotAvailable == <<"N/A">>

\* the direction cells of the three top-10 tables of the station page
PrintedDirections(report_data) ==
    [ k \in {"peak", "commute", "evening"} |->
        [ i \in 1..Len(report_data.top10[k]) |->
            dict_get(report_data.top10[k][i], "direction", NotAvailable) ] ]

Request(report_data) ==
    [ report_data |-> report_data, pdf_path |-> FALSE, on_disk |-> FALSE,
      pdf_bytes |-> FALSE, printed |-> <<>>, remove_failed |-> FALSE ]

\* the button is pressed: the data of the report is collected
CollectReportData ==
    /\ CanCall
    /\ filtered_df # <<>>
    /\ \E include_9 \in BOOLEAN, include_20 \in BOOLEAN,
          ties \in [1..3 -> TieOrders], raised \in BOOLEAN :
         out' = Called(IF raised THEN "raised" ELSE "collect_report_data",
                       <<include_9, include_20>>,
                       Request(IF raised THEN <<>>
                               ELSE collect_report_data(filtered_df, include_9,
                                                        include_20, ties)))
    /\ Frame

\* pdf_path is set and generate_pdf_report writes the file; when it raises
\* the file may or may not have been created
GeneratePdfReport ==
    /\ out.fn = "collect_report_data"
    /\ \E raised \in BOOLEAN, created \in BOOLEAN :
         /\ ~raised => created
         /\ out' = [out EXCEPT
                      !.fn = IF raised THEN "raised" ELSE "generate_pdf_report",
                      !.val.pdf_path = TRUE,
                      !.val.on_disk = created,
                      !.val.printed = IF raised THEN <<>>
                                      ELSE PrintedDirections(out.val.report_data)]
    /\ Frame

\* open(pdf_path, 'rb').read()
ReadPdf ==
    /\ out.fn = "generate_pdf_report"
    /\ \E raised \in BOOLEAN :
         out' = [out EXCEPT !.fn = IF raised THEN "raised" ELSE "read",
                            !.val.pdf_bytes = ~raised]
    /\ Frame

\* os.remove(pdf_path) inside try/except: a failure is swallowed
RemovePdf ==
    /\ out.fn = "read"
    /\ \E removed \in BOOLEAN :
         out' = [out EXCEPT !.fn = "os.remove",
                            !.val.on_disk = IF removed THEN FALSE ELSE @,
                            !.val.remove_failed = ~removed]
    /\ Frame

\* the two download buttons and the YAML snapshot
OfferDownloads ==
    /\ out.fn = "os.remove"
    /\ \E raised \in BOOLEAN :
         out' = [out EXCEPT !.fn = IF raised THEN "raised" ELSE "done"]
    /\ Frame

\* except Exception: the error is shown (st.sidebar.error, an expander with
\* the traceback) and after that the file, if pdf_path is set and the file
\* exists, is removed inside try/except.  A display call that raises leaves
\* the handler before the removal.
HandleException ==
    /\ out.fn = "raised"
    /\ \E display_raised \in BOOLEAN, removed \in BOOLEAN :
         LET tried == ~display_raised /\ out.val.pdf_path /\ out.val.on_disk IN
         out' = [out EXCEPT
                   !.fn = "failed",
                   !.val.on_disk = IF tried /\ removed THEN FALSE ELSE @,
                   !.val.remove_failed = IF tried THEN ~removed ELSE @]
    /\ Frame

NextReport ==
    \/ LoadData
    \/ SelectFilters
    \/ ApplyFilter
    \/ CollectReportData
    \/ GeneratePdfReport
    \/ ReadPdf
    \/ RemovePdf
    \/ OfferDownloads
    \/ HandleException

SpecReport == InitRank /\ [][NextReport]_vars

(***************************************************************************)
(* SpecDate: get_reference_date (data_loader.py:158-172) on a directory    *)
(* that is empty or holds one file, of which only the name matters here.   *)
(* A name is a sequence of characters.  strftime('%Y') prints a year below *)
(* 1000 with or without leading zeros, depending on the C library.         *)
(***************************************************************************)
\* str(n)
RECURSIVE Decimal(_)
Decimal(n) ==
    IF n < 10 THEN <<Digits[n + 1]>>
    ELSE Decimal(n \div 10) \o <<Digits[(n % 10) + 1]>>

RECURSIVE ZeroPad(_, _)
ZeroPad(s, width) == IF Len(s) >= width THEN s ELSE ZeroPad(<<"0">> \o s, width)

\* re.search(r'(\d{8})', filename): the leftmost 8 digits in a row, <<>> for
\* no match
SearchDigits8(filename) ==
    LET starts == {i \in 1..(Len(filename) - 7) :
                      \A k \in i..(i + 7) : IsDigit(filename[k])}
    IN  IF starts = {} THEN <<>>
        ELSE LET i == CHOOSE a \in starts : \A b \in starts : a <= b
             IN  SubSeq(filename, i, i + 7)

DaysInMonth(year, month) ==
    IF month \in {4, 6, 9, 11} THEN 30
    ELSE IF month # 2 THEN 31
    ELSE IF (year % 4 = 0 /\ year % 100 # 0) \/ year % 400 = 0 THEN 29
    ELSE 28

\* datetime.strptime(date_str, '%Y%m%d') does not raise ValueError
strptime_ok(date_str) ==
    LET year  == IntOf(SubSeq(date_str, 1, 4))
        month == IntOf(SubSeq(date_str, 5, 6))
        day   == IntOf(SubSeq(date_str, 7, 8))
    IN  /\ year >= 1
        /\ month \in 1..12
        /\ day \in 1..DaysInMonth(year, month)

\* date_obj.strftime('%Y-%m-%d')
strftime(date_str, pads_year) ==
    LET year == Decimal(IntOf(SubSeq(date_str, 1, 4))) IN
    (IF pads_year THEN ZeroPad(year, 4) ELSE year)
        \o <<"-">> \o ZeroPad(Decimal(IntOf(SubSeq(date_str, 5, 6))), 2)
        \o <<"-">> \o ZeroPad(Decimal(IntOf(SubSeq(date_str, 7, 8))), 2)

\* parse_reference_date, <<>> for None
parse_reference_date(filename, pads_year) ==
    LET date_str == SearchDigits8(filename) IN
    IF date_str = <<>> THEN <<>>
    ELSE IF strptime_ok(date_str) THEN strftime(date_str, pads_year)
    ELSE <<>>

Unknown == <<"unknown">>

get_reference_date(fs, pads_year) ==
    IF find_csv_file(fs) = 0 THEN Unknown
    ELSE LET ref_date == parse_reference_date(fs[find_csv_file(fs)].name, pads_year)
         IN  IF ref_date # <<>> THEN ref_date ELSE Unknown

GetReferenceDate ==
    /\ out.fn = "none"
    /\ \E pads_year \in BOOLEAN :
          out' = Called("get_reference_date", <<>>,
                        get_reference_date(files, pads_year))
    /\ UNCHANGED <<files, load_state, df, error_msg, filtered_df, time_str, parsed>>

DateNames ==
    {<<"x">>, <<"2", "0", "2", "5", "_", "0", "9", "3", "0">>}
    \cup
    {before \o y \o m \o d \o after :
        before \in {<<>>, <<"1", "2", "_">>, <<"9">>},
        y \in {<<"2", "0", "2", "5">>, <<"2", "0", "2", "4">>, <<"1", "9", "0", "0">>,
               <<"2", "0", "0", "0">>, <<"0", "9", "9", "9">>, <<"0", "0", "0", "0">>},
        m \in {<<"0", "0">>, <<"0", "2">>, <<"0", "9">>, <<"1", "2">>, <<"1", "3">>},
        d \in {<<"0", "0">>, <<"0", "1">>, <<"2", "8">>, <<"2", "9">>, <<"3", "0">>,
               <<"3", "1">>, <<"3", "2">>},
        after \in {<<>>, <<"7">>, <<".", "c", "s", "v">>}}

InitDate ==
    /\ files \in {NoFiles} \cup {<<[name |-> n]>> : n \in DateNames}
    /\ load_state = "not_called"
    /\ df = NoTable
    /\ error_msg = NoError
    /\ filtered_df = <<>>
    /\ out = NoCall
    /\ time_str = <<>>
    /\ parsed = Unset

SpecDate == InitDate /\ [][GetReferenceDate]_vars

(***************************************************************************)
(* SpecDay: files of one station whose time-bucket columns are labels of   *)
(* a service day: morning, late evening and after midnight, with the hour  *)
(* written with and without a leading zero, and an hour past 24.           *)
(***************************************************************************)
L0100 == <<"1", "si", "0", "0", "bun">>
L2500 == <<"2", "5", "si", "0", "0", "bun">>
LZero0830 == <<"0", "8", "si", "3", "0", "bun">>

DayLabels == {L0830, LZero0830, L2330, L0030, L0100, L2500}

DayHeaders ==
    {th \in SeqsUpTo(DayLabels, MaxBuckets) :
        /\ th # <<>>
        /\ \A i, j \in 1..Len(th) : th[i] = th[j] => i = j}

DayFiles ==
    UNION {{MakeFile(Readable, expected_meta_cols, th,
                     <<[meta |-> Station1, cells |-> cells]>>) :
               cells \in [1..Len(th) -> CellPool]} :
           th \in DayHeaders}

InitDay ==
    /\ files \in {<<f>> : f \in DayFiles}
    /\ load_state = "not_called"
    /\ df = NoTable
    /\ error_msg = NoError
    /\ filtered_df = <<>>
    /\ out = NoCall
    /\ time_str = <<>>
    /\ parsed = Unset

SpecDay == InitDay /\ [][LoadData]_vars

(***************************************************************************)
(* SpecCache: the script runs again and again (every widget interaction    *)
(* reruns app.py) and calls load_data each time, while the directory       *)
(* changes between the runs.  load_data is wrapped by st.cache_data        *)
(* (data_loader.py:78): a value the body returned is stored under the      *)
(* function (it has no arguments) and handed out by every later call; a    *)
(* call whose body raised stores nothing.  out counts the calls and tells  *)
(* whether the last one ran the body.                                      *)
(***************************************************************************)
\* A cache that never has the value.
CacheHit_Never(state) == FALSE

\* st.cache_data has a stored value for load_data()
CacheHit(state) == state = "returned"

CallCount == IF out.fn = "load_data" THEN out.arg[1] ELSE 0

CachedLoadData ==
    /\ CallCount < MaxCalls
    /\ IF CacheHit(load_state)
       THEN /\ out' = Called("load_data", <<CallCount + 1>>, <<"cached">>)
            /\ UNCHANGED <<load_state, df, error_msg>>
       ELSE /\ \E melt_raises \in (IF load_state = "raised" THEN {TRUE} ELSE BOOLEAN) :
                 LET r == load_data(files, melt_raises) IN
                 /\ load_state' = r.state
                 /\ df' = r.df
                 /\ error_msg' = r.error
            /\ out' = Called("load_data", <<CallCount + 1>>, <<"computed">>)
    /\ UNCHANGED <<files, filtered_df, time_str, parsed>>

Directories == {NoFiles} \cup {<<f>> : f \in CacheFiles}

\* the directory gets another content between two runs of the script
ChangeDirectory ==
    /\ \E d \in Directories : d # files /\ files' = d
    /\ UNCHANGED <<load_state, df, error_msg, filtered_df, out, time_str, parsed>>

InitCache ==
    /\ files \in Directories
    /\ load_state = "not_called"
    /\ df = NoTable
    /\ error_msg = NoError
    /\ filtered_df = <<>>
    /\ out = NoCall
    /\ time_str = <<>>
    /\ parsed = Unset

NextCache ==
    \/ CachedLoadData
    \/ ChangeDirectory

SpecCache == InitCache /\ [][NextCache]_vars

(***************************************************************************)
(* SpecStation: files in which a station occurs in both directions, a      *)
(* station name occurs on two lines, and a station has no coordinates.     *)
(***************************************************************************)
Station1Down == Meta(<<"1">>, <<"1">>, <<"1">>, <<"a">>, <<"2">>)
Station1Line2 == Meta(<<"1">>, <<"2">>, <<"1">>, <<"a">>, <<"1">>)

StationLists ==
    { <<Station1, Station1Down>>,
      <<Station1, Station1Down, Station1Line2>>,
      <<Station1, Station2>>,
      <<Station2, Station3>> }

StationTimeHeaders == { <<L0900, L1700>>, <<L0700, LNoTime>> }

StationFiles ==
    {MakeFile(Readable, expected_meta_cols, th,
              [i \in 1..Len(st) |-> [meta |-> st[i], cells |-> cells[i]]]) :
        th \in StationTimeHeaders, st \in StationLists,
        cells \in [1..3 -> [1..2 -> CellPool]]}

InitStation ==
    /\ files \in {<<f>> : f \in StationFiles}
    /\ load_state = "not_called"
    /\ df = NoTable
    /\ error_msg = NoError
    /\ filtered_df = <<>>
    /\ out = NoCall
    /\ time_str = <<>>
    /\ parsed = Unset

NextStation ==
    \/ LoadData
    \/ SelectFilters
    \/ ApplyFilter
    \/ GetStationPeakSummary
    \/ GetStationFullSummary
    \/ GetStationCrowdingForMap

SpecStation == InitStation /\ [][NextStation]_vars

(***************************************************************************)
(* SpecTime: files of one or two stations whose time-bucket headers have   *)
(* one, two or only labels that parse_time_column does not parse, next to  *)
(* buckets of the commute and the evening window.                          *)
(***************************************************************************)
LSiBun == <<"si", "bun">>

UnparsedHeaders ==
    { <<L0700, LNoTime>>, <<LNoTime, LSiBun>>, <<LNoTime, L1700, LSiBun>> }

TimeFiles ==
    {MakeFile(Readable, expected_meta_cols, th,
              [i \in 1..Len(cells) |->
                  [meta |-> StationPool[i], cells |-> cells[i]]]) :
        th \in UnparsedHeaders,
        cells \in UNION {[1..n -> [1..3 -> CellPool]] : n \in 1..2}}

InitTime ==
    /\ files \in {<<f>> : f \in TimeFiles}
    /\ load_state = "not_called"
    /\ df = NoTable
    /\ error_msg = NoError
    /\ filtered_df = <<>>
    /\ out = NoCall
    /\ time_str = <<>>
    /\ parsed = Unset

NextTime ==
    \/ LoadData
    \/ SelectFilters
    \/ ApplyFilter
    \/ CalculateCommuteAvg
    \/ CalculateEveningAvg

SpecTime == InitTime /\ [][NextTime]_vars

(***************************************************************************)
(* Direct calls of parse_time_column on typed labels.                      *)
(***************************************************************************)
LabelTokens == {"0", "2", "3", "8", "si", "bun"}

InitParse ==
    /\ files = NoFiles
    /\ load_state = "not_called"
    /\ df = NoTable
    /\ error_msg = NoError
    /\ filtered_df = <<>>
    /\ out = NoCall
    /\ time_str = <<>>
    /\ parsed = Unset

TypeChar ==
    /\ Len(time_str) < MaxLen
    /\ \E c \in LabelTokens : time_str' = Append(time_str, c)
    /\ parsed' = Unset
    /\ UNCHANGED <<files, load_state, df, error_msg, filtered_df, out>>

ParseTimeColumn ==
    /\ parsed = Unset
    /\ LET r == parse_time_column(time_str)
       IN  parsed' = <<r[1], r[2], TimeOrder(r[1], r[2])>>
    /\ UNCHANGED <<files, load_state, df, error_msg, filtered_df, out, time_str>>

NextParse == TypeChar \/ ParseTimeColumn

SpecParse == InitParse /\ [][NextParse]_vars

(***************************************************************************)
(* Properties.                                                             *)
(***************************************************************************)
TheFile == files[1]

RawMetaNames == {expected_meta_cols[i] : i \in 1..Len(expected_meta_cols)}

\* the time-bucket columns of a wide table, by position
TimeColIdx(f) ==
    {k \in 1..Len(f.columns) : Strip(f.columns[k]) \notin RawMetaNames}

RawCol(f, name) == CHOOSE k \in 1..Len(f.columns) : Strip(f.columns[k]) = name

\* the number a cell's text denotes: digits between blanks, else missing
NumericValue(cell) ==
    IF \E a, b \in 1..Len(cell) :
          /\ a <= b
          /\ \A i \in 1..Len(cell) :
                IF a <= i /\ i <= b THEN IsDigit(cell[i]) ELSE cell[i] = " "
    THEN IntOf(SelectSeq(cell, IsDigit))
    ELSE NaN

\* what the wide cell (row i, column k) says
WideCell(f, i, k) ==
    [ day_type     |-> f.rows[i][RawCol(f, <<"day_type">>)],
      line         |-> f.rows[i][RawCol(f, <<"line">>)],
      station_no   |-> f.rows[i][RawCol(f, <<"station_no">>)],
      station_name |-> f.rows[i][RawCol(f, <<"departure">>)],
      direction    |-> f.rows[i][RawCol(f, <<"updown">>)],
      time         |-> Strip(f.columns[k]),
      crowding     |-> NumericValue(f.rows[i][k]) ]

\* the same seven fields of a long row
Cell(row) ==
    [ day_type     |-> row.day_type,
      line         |-> row.line,
      station_no   |-> row.station_no,
      station_name |-> row.station_name,
      direction    |-> row.direction,
      time         |-> row.time,
      crowding     |-> row.crowding ]

LongCount(rows, cell) == Cardinality({n \in 1..Len(rows) : Cell(rows[n]) = cell})

WideCount(f, cell) ==
    Cardinality({ik \in (1..Len(f.rows)) \X TimeColIdx(f) :
                    WideCell(f, ik[1], ik[2]) = cell})

TableReturned == load_state = "returned" /\ df.present

\* C1 (as amended): the table load_data returns for a wide table of M rows and
\* T time-bucket columns has exactly M*T rows, and every wide cell is carried by
\* exactly one long row: a (day-type, line, station-number, station-name,
\* direction, time label, value) combination occurs in the long table as often
\* as it occurs among the wide cells, with the cell's number or the missing
\* marker for a blank or non-numeric cell.
C1_ReshapeLossless ==
    TableReturned =>
        /\ Len(df.rows) = Len(TheFile.rows) * Cardinality(TimeColIdx(TheFile))
        /\ \A i \in 1..Len(TheFile.rows), k \in TimeColIdx(TheFile) :
              LET cell == WideCell(TheFile, i, k)
              IN  LongCount(df.rows, cell) = WideCount(TheFile, cell)

\* C1 (as claimed): every combination of the wide table appears exactly once in
\* the long table.
C1_EachCombinationOnce ==
    TableReturned =>
        /\ Len(df.rows) = Len(TheFile.rows) * Cardinality(TimeColIdx(TheFile))
        /\ \A i \in 1..Len(TheFile.rows), k \in TimeColIdx(TheFile) :
              LongCount(df.rows, WideCell(TheFile, i, k)) = 1

\* a returned table of two rows by two columns with a blank, a padded number
\* and a non-numeric cell
C1_Witness ==
    /\ TableReturned
    /\ Len(TheFile.rows) = 2
    /\ Cardinality(TimeColIdx(TheFile)) = 2
    /\ Len(df.rows) = 4
    /\ \E n \in 1..4 : df.rows[n].crowding = 7
    /\ \E n \in 1..4 : df.rows[n].crowding = NaN
    /\ \E k \in TimeColIdx(TheFile) : TheFile.rows[1][k] = <<"x">>
    /\ \E k \in TimeColIdx(TheFile) : TheFile.rows[2][k] = <<>>

(***************************************************************************)
(* Aggregations, restated over row positions.                              *)
(***************************************************************************)
Positions(rows) == 1..Len(rows)

\* the positions of the rows that carry a crowding value
Valid(rows) == {i \in Positions(rows) : rows[i].crowding # NaN}

RECURSIVE SumAt(_, _)
SumAt(rows, S) ==
    IF S = {} THEN 0
    ELSE LET i == CHOOSE i \in S : TRUE
         IN  rows[i].crowding + SumAt(rows, S \ {i})

\* the average of the values at the positions S (all of them numbers)
AverageAt(rows, S) == Frac(SumAt(rows, S), Cardinality(S))

\* the largest of the values at the positions S (not empty)
LargestAt(rows, S) ==
    CHOOSE v \in {rows[i].crowding : i \in S} : \A i \in S : rows[i].crowding <= v

\* the positions whose hour lies in lo..hi, hi itself only when inclusive
InHours(rows, lo, hi, inclusive) ==
    {i \in Positions(rows) :
        /\ rows[i].hour # NaN
        /\ lo <= rows[i].hour
        /\ rows[i].hour < hi \/ (inclusive /\ rows[i].hour = hi)}

\* the average over the rows of a window: 0 without such a row, missing when
\* none of them has a value
WindowAverage(rows, lo, hi, inclusive) ==
    LET W == InHours(rows, lo, hi, inclusive) IN
    IF W = {} THEN Zero
    ELSE IF W \cap Valid(rows) = {} THEN NaNMean
    ELSE AverageAt(rows, W \cap Valid(rows))

\* C2: for a table with a non-missing crowding value, calculate_peak returns the
\* maximum of the non-missing values and the time label of a row that holds the
\* maximum and has the smallest time_order among the rows holding it.
C2_PeakEarliestTime ==
    (out.fn = "calculate_peak" /\ Valid(filtered_df) # {}) =>
        LET V    == Valid(filtered_df)
            peak == LargestAt(filtered_df, V)
            tied == {i \in V : filtered_df[i].crowding = peak}
        IN  /\ out.val[1] = peak
            /\ \E i \in tied :
                  /\ filtered_df[i].time = out.val[2]
                  /\ \A j \in tied :
                        (filtered_df[i].time_order # NaN /\ filtered_df[j].time_order # NaN)
                            => filtered_df[i].time_order <= filtered_df[j].time_order

\* C3: calculate_commute_avg returns the average of crowding over exactly the
\* rows with 7 <= hour <= 9 (include_9) resp. 7 <= hour < 9, and
\* calculate_evening_avg over exactly the rows with 17 <= hour <= 20
\* (include_20) resp. 17 <= hour < 20; no other row enters the result.
C3_WindowBoundary ==
    /\ out.fn = "calculate_commute_avg" =>
          out.val = WindowAverage(filtered_df, 7, 9, out.arg[1])
    /\ out.fn = "calculate_evening_avg" =>
          out.val = WindowAverage(filtered_df, 17, 20, out.arg[1])

\* a commute average without the 9 o'clock bucket over a table that has a value
\* at 7 and a larger one at 9
C3_Witness ==
    /\ out.fn = "calculate_commute_avg"
    /\ out.arg = <<FALSE>>
    /\ out.val = <<1, 1>>
    /\ \E i, j \in Positions(filtered_df) :
          /\ filtered_df[i].hour = 7 /\ filtered_df[i].crowding = 1
          /\ filtered_df[j].hour = 9 /\ filtered_df[j].crowding = 2

\* the positions of the rows of the group with key k
GroupAt(rows, by, k) == {i \in Positions(rows) : KeyOf(rows[i], by) = k}

Commute(rows, include_9) == InHours(rows, 7, 9, include_9)

Evening(rows, include_20) == InHours(rows, 17, 20, include_20)

\* the mean of the non-missing values at S, missing when there is none
MeanOfValid(rows, S) ==
    IF S \cap Valid(rows) = {} THEN NaNMean ELSE AverageAt(rows, S \cap Valid(rows))

\* the same with 0 when there is none
MeanOfValidOrZero(rows, S) ==
    IF S \cap Valid(rows) = {} THEN Zero ELSE AverageAt(rows, S \cap Valid(rows))

\* the maximum of the non-missing values at S, none when there is none
MaxOfValid(rows, S, none) ==
    IF S \cap Valid(rows) = {} THEN none ELSE LargestAt(rows, S \cap Valid(rows))

\* <<peak, time>> is the peak of the rows at S: (0, "-") without a value, else
\* the largest value and the label of a row that has it
IsPeakAt(rows, S, peak, time) ==
    IF S \cap Valid(rows) = {} THEN peak = 0 /\ time = <<"-">>
    ELSE /\ peak = LargestAt(rows, S \cap Valid(rows))
         /\ \E i \in S \cap Valid(rows) :
               rows[i].crowding = peak /\ rows[i].time = time

\* the group key of a top-10 row
TopKey(r) == <<r.line, r.station_name, r.bang_hyang, r.yoil>>

\* C4 (as amended): every mean and every maximum the aggregation functions
\* report is computed over the non-missing crowding values of its group when
\* the group has one, and a peak is never a missing value.  A group without a
\* value gets (0, "-") as peak and peak time, a missing mean and maximum in the
\* line summary and a missing average in the windowed top-10 tables and the
\* windowed KPI, and 0 as commute and evening average of the line and station
\* summaries.
C4_MissingExcluded ==
    LET rows == filtered_df IN
    /\ out.fn = "calculate_peak" =>
          IsPeakAt(rows, Positions(rows), out.val[1], out.val[2])
    /\ out.fn = "calculate_commute_avg" =>
          out.val = IF Commute(rows, out.arg[1]) = {} THEN Zero
                    ELSE MeanOfValid(rows, Commute(rows, out.arg[1]))
    /\ out.fn = "calculate_evening_avg" =>
          out.val = IF Evening(rows, out.arg[1]) = {} THEN Zero
                    ELSE MeanOfValid(rows, Evening(rows, out.arg[1]))
    /\ out.fn = "get_peak_top10" =>
          \A n \in 1..Len(out.val) :
             IsPeakAt(rows, GroupAt(rows, Key4, TopKey(out.val[n])),
                      out.val[n].peak, out.val[n].peak_time)
    /\ out.fn = "get_commute_top10" =>
          \A n \in 1..Len(out.val) :
             out.val[n].avg =
                MeanOfValid(rows, GroupAt(rows, Key4, TopKey(out.val[n]))
                                  \cap Commute(rows, out.arg[1]))
    /\ out.fn = "get_evening_top10" =>
          \A n \in 1..Len(out.val) :
             out.val[n].avg =
                MeanOfValid(rows, GroupAt(rows, Key4, TopKey(out.val[n]))
                                  \cap Evening(rows, out.arg[1]))
    /\ out.fn = "get_line_summary" =>
          \A n \in 1..Len(out.val) :
             LET G == GroupAt(rows, Key1, <<out.val[n].line>>) IN
             /\ out.val[n].mean_crowding = MeanOfValid(rows, G)
             /\ out.val[n].peak = MaxOfValid(rows, G, NaN)
             /\ out.val[n].commute_avg =
                   MeanOfValidOrZero(rows, G \cap Commute(rows, out.arg[1]))
             /\ out.val[n].evening_avg =
                   MeanOfValidOrZero(rows, G \cap Evening(rows, out.arg[2]))
    /\ out.fn = "get_station_peak_summary" =>
          \A n \in 1..Len(out.val) :
             IsPeakAt(rows,
                      GroupAt(rows, Key2, <<out.val[n].line, out.val[n].station_name>>),
                      out.val[n].peak, out.val[n].peak_time)
    /\ out.fn = "get_station_full_summary" =>
          \A n \in 1..Len(out.val) :
             LET G == GroupAt(rows, Key2,
                              <<out.val[n].line, out.val[n].station_name>>) IN
             /\ IsPeakAt(rows, G, out.val[n].peak, out.val[n].peak_time)
             /\ out.val[n].commute_avg =
                   MeanOfValidOrZero(rows, G \cap Commute(rows, out.arg[1]))
             /\ out.val[n].evening_avg =
                   MeanOfValidOrZero(rows, G \cap Evening(rows, out.arg[2]))

\* C4 (as claimed, for the means of the summaries): a commute or evening average
\* of a line or station is the mean of the group's non-missing values in the
\* window; missing values are never turned into a 0, so a group with rows in
\* the window but no value there has no 0 average.
C4_MeanNeverZeroForMissing ==
    LET rows == filtered_df IN
    out.fn \in {"get_line_summary", "get_station_full_summary"} =>
        \A n \in 1..Len(out.val) :
            LET G == IF out.fn = "get_line_summary"
                     THEN GroupAt(rows, Key1, <<out.val[n].line>>)
                     ELSE GroupAt(rows, Key2,
                                  <<out.val[n].line, out.val[n].station_name>>)
                C == G \cap Commute(rows, out.arg[1])
                E == G \cap Evening(rows, out.arg[2])
            IN  /\ C # {} => out.val[n].commute_avg = MeanOfValid(rows, C)
                /\ E # {} => out.val[n].evening_avg = MeanOfValid(rows, E)

\* a line summary over a line whose two rows are a missing value and a 2: the
\* mean is 2
C4_Witness ==
    /\ out.fn = "get_line_summary"
    /\ \E n \in 1..Len(out.val) :
          LET G == GroupAt(filtered_df, Key1, <<out.val[n].line>>) IN
          /\ Cardinality(G) = 2
          /\ \E i, j \in G : /\ filtered_df[i].crowding = NaN
                             /\ filtered_df[j].crowding = 2
          /\ out.val[n].mean_crowding = <<2, 1>>
          /\ out.val[n].peak = 2

CallsOfTables ==
    {"get_peak_top10", "get_commute_top10", "get_evening_top10", "get_line_summary",
     "get_station_peak_summary", "get_station_full_summary",
     "get_station_crowding_for_map"}

\* C5: on a table with zero rows calculate_peak returns (0, "-"), as it does
\* when every crowding value is missing, calculate_commute_avg and
\* calculate_evening_avg return 0, and the top-10, line-summary, station-summary
\* and map functions return an empty table.
C5_EmptyInputSafety ==
    /\ (out.fn = "calculate_peak" /\ Valid(filtered_df) = {}) =>
          out.val = <<0, <<"-">>>>
    /\ filtered_df = <<>> =>
          /\ out.fn \in {"calculate_commute_avg", "calculate_evening_avg"} =>
                out.val = Zero
          /\ out.fn \in CallsOfTables => out.val = <<>>

\* a windowed average called on the empty table a selection leaves of a loaded
\* table with rows
C5_Witness ==
    /\ out.fn = "calculate_commute_avg"
    /\ filtered_df = <<>>
    /\ df.rows # <<>>
    /\ out.val = Zero

(***************************************************************************)
(* Top-10 tables, restated.                                                *)
(***************************************************************************)
TopN == 10

Min(a, b) == IF a < b THEN a ELSE b

TopKeys(top) == {TopKey(top[n]) : n \in 1..Len(top)}

\* the scalar a row shows in a column, as a fraction
Shown(r, column) == IF column = "peak" THEN <<r.peak, 1>> ELSE r[column]

\* a missing average is below every average
NotBelow(a, b) == b = NaNMean \/ (a # NaNMean /\ ~FracLess(a, b))

\* scalarOf gives every group its scalar.  top shows, best first, the
\* Min(TopN, G) groups with the largest scalars: every row is a group with its
\* scalar, no group twice, no row below a later row, no group left out above a
\* row; the ranks are 1..Len(top)
IsRanking(top, scalarOf, column) ==
    /\ Len(top) = Min(TopN, Cardinality(DOMAIN scalarOf))
    /\ \A n \in 1..Len(top) :
          /\ TopKey(top[n]) \in DOMAIN scalarOf
          /\ Shown(top[n], column) = scalarOf[TopKey(top[n])]
    /\ \A m, n \in 1..Len(top) :
          m < n => /\ TopKey(top[m]) # TopKey(top[n])
                   /\ NotBelow(Shown(top[m], column), Shown(top[n], column))
    /\ \A k \in (DOMAIN scalarOf) \ TopKeys(top) :
          \A n \in 1..Len(top) : NotBelow(Shown(top[n], column), scalarOf[k])
    /\ {top[n].rank : n \in 1..Len(top)} = 1..Len(top)

\* the groups with a row at the positions W
GroupsAt(rows, W) == {KeyOf(rows[i], Key4) : i \in W}

\* every group's peak: its largest value, 0 without a value
PeakScalars(rows) ==
    [k \in GroupsAt(rows, Positions(rows)) |->
        <<MaxOfValid(rows, GroupAt(rows, Key4, k), 0), 1>>]

\* the average over the window W of every group with a row in it
WindowScalars(rows, W) ==
    [k \in GroupsAt(rows, W) |-> MeanOfValid(rows, GroupAt(rows, Key4, k) \cap W)]

\* C6 (as amended): for a non-empty table get_peak_top10 returns the
\* min(10, G) groups with the largest peaks of its G (line, station, direction,
\* day-type) groups, in descending order of peak, with the ranks 1..min(10, G);
\* get_commute_top10 and get_evening_top10 do the same for the window averages
\* of the groups that have a row in the window (an empty table when no row is in
\* the window), a group whose window values are all missing coming after every
\* group with an average.
C6_RankingSizeAndOrder ==
    LET rows == filtered_df IN
    rows # <<>> =>
        /\ out.fn = "get_peak_top10" =>
              IsRanking(out.val, PeakScalars(rows), "peak")
        /\ out.fn = "get_commute_top10" =>
              IsRanking(out.val, WindowScalars(rows, Commute(rows, out.arg[1])), "avg")
        /\ out.fn = "get_evening_top10" =>
              IsRanking(out.val, WindowScalars(rows, Evening(rows, out.arg[1])), "avg")

TopTables == {"get_peak_top10", "get_commute_top10", "get_evening_top10"}

\* C6 (as claimed): for a non-empty table with G groups each of the three top-10
\* functions returns exactly min(10, G) rows with the ranks 1..min(10, G).
C6_TenOfAllGroups ==
    (out.fn \in TopTables /\ filtered_df # <<>>) =>
        /\ Len(out.val) =
              Min(TopN, Cardinality(GroupsAt(filtered_df, Positions(filtered_df))))
        /\ {out.val[n].rank : n \in 1..Len(out.val)} = 1..Len(out.val)

\* a peak table cut at ten rows out of more groups, from peak 2 down to peak 1
C6_Witness ==
    /\ out.fn = "get_peak_top10"
    /\ Cardinality(GroupsAt(filtered_df, Positions(filtered_df))) > TopN
    /\ Len(out.val) = TopN
    /\ out.val[1].peak = 2
    /\ out.val[TopN].peak = 1

\* the ranking column of the table in out
RankedBy == IF out.fn = "get_peak_top10" THEN "peak" ELSE "avg"

\* C7 (as amended): the rank column of every top-10 table is the 1-based
\* position of the row in the sorted table: the ranks are 1, 2, ... in row
\* order, and rows with equal scalars carry different ranks.
C7_RankIsPosition ==
    out.fn \in TopTables => \A n \in 1..Len(out.val) : out.val[n].rank = n

\* C7 (as claimed): two rows of a top-10 table carry the same rank exactly when
\* their scalars are equal.
C7_DenseRank ==
    out.fn \in TopTables =>
        \A m, n \in 1..Len(out.val) :
            (out.val[m].rank = out.val[n].rank) <=>
                (Shown(out.val[m], RankedBy) = Shown(out.val[n], RankedBy))

\* a commute table whose first two rows have the same average and the ranks 1
\* and 2
C7_Witness ==
    /\ out.fn = "get_commute_top10"
    /\ Len(out.val) >= 2
    /\ out.val[1].avg = out.val[2].avg
    /\ out.val[1].rank = 1
    /\ out.val[2].rank = 2

\* C8: in every top-10 table the groups with equal scalars stand in the order of
\* the grouped table (ascending group key), and a group left out by the cut
\* stands, in that order, after every shown group with the same scalar.
C8_TiesKeepGroupOrder ==
    LET rows == filtered_df
        scalarOf ==
            IF out.fn = "get_peak_top10" THEN PeakScalars(rows)
            ELSE IF out.fn = "get_commute_top10"
            THEN WindowScalars(rows, Commute(rows, out.arg[1]))
            ELSE WindowScalars(rows, Evening(rows, out.arg[1]))
    IN
    out.fn \in TopTables =>
        /\ \A m, n \in 1..Len(out.val) :
              (m < n /\ Shown(out.val[m], RankedBy) = Shown(out.val[n], RankedBy))
                  => TupleLess(TopKey(out.val[m]), TopKey(out.val[n]))
        /\ \A k \in (DOMAIN scalarOf) \ TopKeys(out.val) :
              \A n \in 1..Len(out.val) :
                  Shown(out.val[n], RankedBy) = scalarOf[k]
                      => TupleLess(TopKey(out.val[n]), k)

C10_ResultOrError ==
    load_state # "not_called" =>
        /\ load_state = "returned"
        /\ \/ df.present /\ ~error_msg.present
           \/ ~df.present /\ error_msg.present /\ error_msg.text # <<>>


\* the rows whose time label has the hour and minute markers with their digits
Parsed(rows) == SelectSeq(rows, LAMBDA r : HasTime(r.time))

\* C11: whatever the number of time-bucket columns whose label does not parse,
\* load_data returns a table; it keeps one row per wide row for each such
\* column, with missing hour, minute and time_order; and a commute or evening
\* average is what it is over the rows with a parsed label alone.
C11_UnparsedLabelsKept ==
    load_state # "not_called" =>
        /\ TableReturned
        /\ Len(df.rows) = Len(TheFile.rows) * Cardinality(TimeColIdx(TheFile))
        /\ \A k \in TimeColIdx(TheFile) :
              ~HasTime(TheFile.columns[k]) =>
                  Cardinality({n \in Positions(df.rows) :
                                  /\ df.rows[n].time = Strip(TheFile.columns[k])
                                  /\ df.rows[n].hour = NaN
                                  /\ df.rows[n].minute = NaN
                                  /\ df.rows[n].time_order = NaN})
                      = Len(TheFile.rows)
        /\ out.fn = "calculate_commute_avg" =>
              out.val = WindowAverage(Parsed(filtered_df), 7, 9, out.arg[1])
        /\ out.fn = "calculate_evening_avg" =>
              out.val = WindowAverage(Parsed(filtered_df), 17, 20, out.arg[1])

\* an evening average of 1 over a table of three buckets, two of them with a
\* label that does not parse and the value 2
C11_Witness ==
    /\ out.fn = "calculate_evening_avg"
    /\ out.val = <<1, 1>>
    /\ Len(filtered_df) = 3
    /\ Cardinality({n \in 1..3 : filtered_df[n].hour = NaN
                                    /\ filtered_df[n].crowding = 2}) = 2


\* the encodings under which reading the file does not fail to decode
Answering(file) == {i \in 1..3 : file.enc[i] # "decode_error"}

FirstAnswering(file) ==
    CHOOSE i \in Answering(file) : \A j \in Answering(file) : i <= j

ReadErrors == {"read_error", "unsupported_encodings"}

\* C12: the file is read as cp949, then euc-kr, then utf-8.  The first
\* encoding that does not fail to decode decides: when it parses, the load
\* goes on with its table (no reading error); when it fails otherwise, the
\* error names that encoding and no later encoding is tried; when all three
\* fail to decode, the error lists the three encodings.
C12_EncodingFallback ==
    (load_state # "not_called" /\ files # NoFiles) =>
        IF Answering(TheFile) = {}
        THEN /\ ~df.present
             /\ error_msg.text =
                    <<"unsupported_encodings", "cp949", "euc-kr", "utf-8">>
        ELSE IF TheFile.enc[FirstAnswering(TheFile)] = "ok"
        THEN \/ error_msg.text = <<>>
             \/ error_msg.text[1] \notin ReadErrors
        ELSE /\ ~df.present
             /\ error_msg.text =
                    <<"read_error",
                      <<"cp949", "euc-kr", "utf-8">>[FirstAnswering(TheFile)]>>

\* cp949 fails to decode, euc-kr fails otherwise, utf-8 would have parsed
C12_Witness ==
    /\ load_state = "returned"
    /\ files # NoFiles
    /\ TheFile.enc = <<"decode_error", "error", "ok">>
    /\ error_msg.text = <<"read_error", "euc-kr">>

\* cp949 and euc-kr fail to decode and the table read as utf-8 is returned
C12_WitnessTable ==
    /\ TableReturned
    /\ TheFile.enc = <<"decode_error", "decode_error", "ok">>
    /\ df.rows # <<>>


\* the reading of the file gave a table
ReadOk(file) ==
    Answering(file) # {} /\ file.enc[FirstAnswering(file)] = "ok"

\* the required metadata columns that no header of the file is, once trimmed
Absent(file) ==
    {c \in RawMetaNames :
        \A k \in 1..Len(file.columns) : Strip(file.columns[k]) # c}

Listed(text) == {text[i] : i \in 2..Len(text)}

\* C13: when the file was read, load_data fails with the missing-columns
\* error exactly when one of the five required metadata columns is absent
\* from the trimmed headers, and the error lists each absent column once and
\* nothing else; a header that is a required name with surrounding blanks is
\* present.
C13_SchemaValidation ==
    (load_state # "not_called" /\ files # NoFiles /\ ReadOk(TheFile)) =>
        IF Absent(TheFile) = {}
        THEN error_msg.text = <<>> \/ error_msg.text[1] # "missing_columns"
        ELSE /\ load_state = "returned"
             /\ ~df.present
             /\ error_msg.text[1] = "missing_columns"
             /\ Listed(error_msg.text) = Absent(TheFile)
             /\ Len(error_msg.text) = 1 + Cardinality(Absent(TheFile))

\* a file whose day-type and direction headers are padded and which has
\* neither a station number nor a departure station
C13_Witness ==
    /\ load_state = "returned"
    /\ files # NoFiles
    /\ \E k \in 1..Len(TheFile.columns) :
          TheFile.columns[k] = <<" ", "day_type", " ">>
    /\ error_msg.text = <<"missing_columns", <<"station_no">>, <<"departure">> >>

\* a file whose required headers are padded passes and gives a table
C13_WitnessPadded ==
    /\ TableReturned
    /\ \E k \in 1..Len(TheFile.columns) :
          TheFile.columns[k] = <<" ", "departure", " ">>
    /\ df.rows # <<>>


\* the lines of a table
LinesOf(rows) == {rows[i].line : i \in Positions(rows)}

\* C14: for a non-empty table get_line_summary returns one row per distinct
\* line and no other row; the row holds the mean and the maximum of the line's
\* values and the means of its values in the commute and in the evening
\* window, and 0 as window average when the line has no row in the window.
C14_LineSummary ==
    (out.fn = "get_line_summary" /\ filtered_df # <<>>) =>
        LET rows == filtered_df IN
        /\ Len(out.val) = Cardinality(LinesOf(rows))
        /\ {out.val[n].line : n \in 1..Len(out.val)} = LinesOf(rows)
        /\ \A n \in 1..Len(out.val) :
              LET G == GroupAt(rows, Key1, <<out.val[n].line>>)
                  C == G \cap Commute(rows, out.arg[1])
                  E == G \cap Evening(rows, out.arg[2])
              IN  /\ out.val[n].mean_crowding = MeanOfValid(rows, G)
                  /\ out.val[n].peak = MaxOfValid(rows, G, NaN)
                  /\ C = {} => out.val[n].commute_avg = Zero
                  /\ C \cap Valid(rows) # {} =>
                        out.val[n].commute_avg = MeanOfValid(rows, C)
                  /\ E = {} => out.val[n].evening_avg = Zero
                  /\ E \cap Valid(rows) # {} =>
                        out.val[n].evening_avg = MeanOfValid(rows, E)

\* two lines with evening buckets only: both have 0 as commute average, and
\* their evening averages are 1 and 2
C14_Witness ==
    /\ out.fn = "get_line_summary"
    /\ Len(out.val) = 2
    /\ Commute(filtered_df, TRUE) = {}
    /\ out.val[1].commute_avg = Zero
    /\ out.val[2].commute_avg = Zero
    /\ out.val[1].evening_avg = <<1, 1>>
    /\ out.val[2].evening_avg = <<2, 1>>


\* the (line, station) pairs of a table
PairsOf(rows) ==
    {<<rows[i].line, rows[i].station_name>> : i \in Positions(rows)}

PairsIn(summary) ==
    {<<summary[n].line, summary[n].station_name>> : n \in 1..Len(summary)}

\* C15 (as amended): for a non-empty table get_station_peak_summary and
\* get_station_full_summary return one row per distinct (line, station) pair
\* and no other row.  A row of the peak summary holds the pair's peak and peak
\* time; a row of the full summary holds the peak, the peak time and the
\* commute and evening averages (0 without a row in the window), and no mean.
C15_StationSummaries ==
    (out.fn \in {"get_station_peak_summary", "get_station_full_summary"}
        /\ filtered_df # <<>>) =>
        LET rows == filtered_df IN
        /\ Len(out.val) = Cardinality(PairsOf(rows))
        /\ PairsIn(out.val) = PairsOf(rows)
        /\ \A n \in 1..Len(out.val) :
              LET G == GroupAt(rows, Key2,
                               <<out.val[n].line, out.val[n].station_name>>)
              IN
              /\ IsPeakAt(rows, G, out.val[n].peak, out.val[n].peak_time)
              /\ out.fn = "get_station_peak_summary" =>
                    DOMAIN out.val[n] =
                        {"line", "station_name", "peak", "peak_time"}
              /\ out.fn = "get_station_full_summary" =>
                    LET C == G \cap Commute(rows, out.arg[1])
                        E == G \cap Evening(rows, out.arg[2])
                    IN
                    /\ DOMAIN out.val[n] =
                          {"line", "station_name", "peak", "peak_time",
                           "commute_avg", "evening_avg"}
                    /\ C = {} => out.val[n].commute_avg = Zero
                    /\ C \cap Valid(rows) # {} =>
                          out.val[n].commute_avg = MeanOfValid(rows, C)
                    /\ E = {} => out.val[n].evening_avg = Zero
                    /\ E \cap Valid(rows) # {} =>
                          out.val[n].evening_avg = MeanOfValid(rows, E)

\* C15 (as claimed): every row of the full station summary holds the mean of
\* its (line, station) pair among its metrics, as a row of the line summary
\* holds the mean of its line.
C15_FullSummaryHoldsMean ==
    (out.fn = "get_station_full_summary" /\ filtered_df # <<>>) =>
        \A n \in 1..Len(out.val) :
            LET G == GroupAt(filtered_df, Key2,
                             <<out.val[n].line, out.val[n].station_name>>)
            IN  \E column \in DOMAIN out.val[n]
                                \ {"line", "station_name", "peak_time"} :
                    ValueOf(out.val[n], column) = MeanOfValid(filtered_df, G)

\* station a in both directions on line 1 and on line 2: four rows per
\* direction and line make two rows of the full summary
C15_Witness ==
    /\ out.fn = "get_station_full_summary"
    /\ Len(filtered_df) = 6
    /\ Len(out.val) = 2
    /\ out.val[1].station_name = <<"a">>
    /\ out.val[2].station_name = <<"a">>
    /\ out.val[1].peak = 2
    /\ out.val[1].commute_avg = <<3, 2>>


\* the positions of the rows a map kind is computed from
MapSource(rows, kind, include_9, include_20) ==
    IF kind = "commute" THEN Commute(rows, include_9)
    ELSE IF kind = "evening" THEN Evening(rows, include_20)
    ELSE Positions(rows)

\* the (line, station) pairs with a row at the positions S
PairsAt(rows, S) == {<<rows[i].line, rows[i].station_name>> : i \in S}

\* C16: for every kind, get_station_crowding_for_map returns one row for each
\* (line, station) pair of the rows of the kind whose station has coordinates
\* and no row for any other pair, never two rows for one pair; the row carries
\* the coordinates of the lookup and the scalar of the kind; the rows with a
\* scalar are in descending order of it, before the rows without one.
C16_MapValues ==
    out.fn = "get_station_crowding_for_map" =>
        LET rows == filtered_df
            S == MapSource(rows, out.arg[1], out.arg[2], out.arg[3])
            v == out.val
        IN
        /\ \A n, m \in 1..Len(v) :
              (v[n].line = v[m].line /\ v[n].station_name = v[m].station_name)
                  => n = m
        /\ PairsIn(v) =
              {p \in PairsAt(rows, S) : p[2] \in DOMAIN STATION_COORDS}
        /\ \A n \in 1..Len(v) :
              LET G == GroupAt(rows, Key2, <<v[n].line, v[n].station_name>>) \cap S
              IN
              /\ v[n].lat = STATION_COORDS[v[n].station_name].lat
              /\ v[n].lng = STATION_COORDS[v[n].station_name].lng
              /\ v[n].crowding_value =
                    IF out.arg[1] = "peak"
                    THEN <<MaxOfValid(rows, G, 0), 1>>
                    ELSE MeanOfValid(rows, G)
        /\ \A n, m \in 1..Len(v) :
              n < m =>
                 \/ v[m].crowding_value = NaNMean
                 \/ /\ v[n].crowding_value # NaNMean
                    /\ ~FracLess(v[n].crowding_value, v[m].crowding_value)

\* a table with station b and station c, which has no coordinates: the map
\* has the row of b alone
C16_Witness ==
    /\ out.fn = "get_station_crowding_for_map"
    /\ Cardinality(PairsOf(filtered_df)) = 2
    /\ \E i \in Positions(filtered_df) : filtered_df[i].station_name = <<"c">>
    /\ Len(out.val) = 1
    /\ out.val[1].station_name = <<"b">>
    /\ out.val[1].crowding_value = <<3, 2>>

\* station a on line 1 with the average 1 and on line 2 with the average 2:
\* the row of line 2 comes first
C16_WitnessOrder ==
    /\ out.fn = "get_station_crowding_for_map"
    /\ out.arg[1] = "average"
    /\ Len(out.val) = 2
    /\ out.val[1].line = <<"2">>
    /\ out.val[1].crowding_value = <<2, 1>>
    /\ out.val[2].line = <<"1">>
    /\ out.val[2].crowding_value = <<1, 1>>


\* a call of load_data is made in this step
Calls == out' # out /\ out'.fn = "load_data"

C17_WitnessRetry ==
    /\ out.fn = "load_data"
    /\ out.arg = <<2>>
    /\ out.val = <<"computed">>
    /\ df.present


\* the table load_data builds from the file of the directory
BuiltTable == load_data(files, FALSE).df.rows

Aggregations ==
    {"calculate_peak", "calculate_commute_avg", "calculate_evening_avg",
     "get_peak_top10", "get_commute_top10", "get_evening_top10",
     "get_line_summary", "get_station_peak_summary", "get_station_full_summary",
     "get_station_crowding_for_map"}

\* C18: no filter step changes the loaded table and no aggregation call
\* changes the loaded or the filtered table; so after any sequence of runs of
\* the script, each with a filter selection and an aggregation call, the table
\* the next run starts from is the table load_data built, row for row and
\* column for column.
C18_ReadOnlyTable ==
    /\ []((TableReturned /\ out.fn = "none") => df.rows = BuiltTable)
    /\ [][/\ load_state = "returned" => df' = df
          /\ out'.fn \in Aggregations => filtered_df' = filtered_df]_vars

\* a filter has left one row of the four of the loaded table and the peak
\* top-10 was computed from it
C18_Witness ==
    /\ out.fn = "get_peak_top10"
    /\ Len(out.val) = 1
    /\ Len(filtered_df) = 2
    /\ Len(df.rows) = 4


\* the number written before the hour marker of a label that parses
WrittenHour(label) == IntOf(SearchTime(label).hour)

\* C19: in the table load_data returns, every row whose time label parsed has
\* an hour in 1..24, whatever the labels of the time-bucket columns are.
C19_HourRange ==
    TableReturned =>
        \A n \in Positions(df.rows) :
            HasTime(df.rows[n].time) => df.rows[n].hour \in 1..24

\* a label is of the hour after midnight or of the one after it
PostMidnight(label) == HasTime(label) /\ WrittenHour(label) \in {0, 1}

\* C20: time_order is hour * 60 + minute; two rows of distinct labels that
\* parsed have distinct time_order; and a row of a bucket after midnight has
\* a larger time_order than a row of a 23:xx bucket.
C20_StrictlyMonotonic ==
    TableReturned =>
        LET rows == df.rows
            P == {n \in Positions(rows) : HasTime(rows[n].time)}
        IN
        /\ \A n \in P :
              rows[n].time_order = rows[n].hour * 60 + rows[n].minute
        /\ \A n, m \in P :
              rows[n].time # rows[m].time =>
                  rows[n].time_order # rows[m].time_order
        /\ \A n, m \in P :
              (WrittenHour(rows[n].time) = 23 /\ PostMidnight(rows[m].time)) =>
                  rows[n].time_order < rows[m].time_order

AllDigits(s, a, b) == a <= b /\ \A i \in a..b : s[i] \in {"0", "1", "2", "3", "4", "5", "6", "7", "8", "9"}

\* the label holds, somewhere, digits, the hour marker, digits, the minute marker
HoldsForm(s) ==
    \E a, b, c \in 1..Len(s) :
        /\ AllDigits(s, a, b)
        /\ b + 2 <= c
        /\ c + 1 <= Len(s)
        /\ s[b + 1] = "si"
        /\ AllDigits(s, b + 2, c)
        /\ s[c + 1] = "bun"

\* the label is, as a whole, digits, the hour marker, digits, the minute marker
IsForm(s) ==
    \E b \in 1..Len(s) :
        /\ AllDigits(s, 1, b)
        /\ b + 3 <= Len(s)
        /\ s[b + 1] = "si"
        /\ AllDigits(s, b + 2, Len(s) - 1)
        /\ s[Len(s)] = "bun"

\* C21 (as amended): parse_time_column returns an (hour, minute) pair of
\* integers exactly when the label holds the form somewhere in it, whatever
\* stands before and after, and (None, None) exactly when it holds it nowhere.
C21_PatternAnywhere ==
    parsed # Unset =>
        /\ HoldsForm(time_str) => (parsed[1] \in Nat /\ parsed[2] \in Nat)
        /\ ~HoldsForm(time_str) => (parsed[1] = NaN /\ parsed[2] = NaN)

\* C21 (as claimed): a pair for a label of the form, (None, None) for every
\* label that is not of the form.
C21_WholeLabelForm ==
    parsed # Unset =>
        /\ IsForm(time_str) => (parsed[1] \in Nat /\ parsed[2] \in Nat)
        /\ ~IsForm(time_str) => (parsed[1] = NaN /\ parsed[2] = NaN)

\* a label with a minute marker before the form parses as 8:30
C21_Witness ==
    /\ time_str = <<"bun", "8", "si", "3", "0", "bun">>
    /\ parsed = <<8, 30, 510>>

\* how the values of one sort key of two rows compare ("lt", "eq" or "gt"):
\* lines, day types and directions as text, station numbers and time_order as
\* numbers, a missing time_order after every number
Compare3(less, more) == IF less THEN "lt" ELSE IF more THEN "gt" ELSE "eq"

SortKeys(a, b) ==
    << Compare3(TextLess(a.line, b.line), TextLess(b.line, a.line)),
       Compare3(IntOf(a.station_no) < IntOf(b.station_no),
                IntOf(b.station_no) < IntOf(a.station_no)),
       Compare3(TextLess(a.day_type, b.day_type), TextLess(b.day_type, a.day_type)),
       Compare3(TextLess(a.direction, b.direction), TextLess(b.direction, a.direction)),
       Compare3(a.time_order # NaN /\ (b.time_order = NaN \/ a.time_order < b.time_order),
                b.time_order # NaN /\ (a.time_order = NaN \/ b.time_order < a.time_order)) >>

\* a is not after b in the lexicographic order of the five keys
NotAfter(a, b) ==
    LET k == SortKeys(a, b) IN
    \/ \A i \in 1..5 : k[i] = "eq"
    \/ \E i \in 1..5 : k[i] = "lt" /\ \A j \in 1..(i - 1) : k[j] = "eq"

SameGroup(a, b) == \A i \in 1..4 : SortKeys(a, b)[i] = "eq"

\* C22: the rows of the table load_data returns are in non-decreasing
\* lexicographic order of (line, station number, day type, direction,
\* time_order), rows without a time_order after the others of their group; the
\* rows of one (line, station number, day type, direction) group are contiguous.
C22_CanonicalOrder ==
    TableReturned =>
        LET rows == df.rows IN
        /\ \A n, m \in Positions(rows) : n < m => NotAfter(rows[n], rows[m])
        /\ \A n, m \in Positions(rows) :
              (n < m /\ SameGroup(rows[n], rows[m])) =>
                  \A k \in n..m : SameGroup(rows[n], rows[k])

\* a file with station a (number 2) before station b (number 1) and the
\* buckets 23:30 and 0:30: the table has the two rows of b first, 23:30
\* before 0:30
C22_Witness ==
    /\ TableReturned
    /\ Len(TheFile.rows) = 2
    /\ TheFile.rows[1][4] = <<"a">>
    /\ TheFile.rows[2][4] = <<"b">>
    /\ Len(df.rows) = 4
    /\ df.rows[1].station_name = <<"b">>
    /\ df.rows[1].time_order = 1410
    /\ df.rows[2].station_name = <<"b">>
    /\ df.rows[2].time_order = 1470
    /\ df.rows[3].station_name = <<"a">>

TenDigits == {"0", "1", "2", "3", "4", "5", "6", "7", "8", "9"}

\* the first 8 digits in a row of a name, <<>> when it has none
FirstEightDigits(name) ==
    IF \E i \in 1..(Len(name) - 7) : \A k \in i..(i + 7) : name[k] \in TenDigits
    THEN LET i == CHOOSE a \in 1..(Len(name) - 7) :
                     /\ \A k \in a..(a + 7) : name[k] \in TenDigits
                     /\ \A b \in 1..(a - 1) :
                           \E k \in b..(b + 7) : name[k] \notin TenDigits
         IN  SubSeq(name, i, i + 7)
    ELSE <<>>

\* the digits YYYYMMDD are a date of the calendar
CalendarDate(run) ==
    LET y == IntOf(SubSeq(run, 1, 4))
        m == IntOf(SubSeq(run, 5, 6))
        d == IntOf(SubSeq(run, 7, 8))
        leap == (y % 4 = 0 /\ y % 100 # 0) \/ y % 400 = 0
    IN  /\ y >= 1
        /\ m \in 1..12
        /\ d >= 1
        /\ d <= (IF m = 2 THEN (IF leap THEN 29 ELSE 28)
                 ELSE IF m \in {4, 6, 9, 11} THEN 30 ELSE 31)

\* the reference date the claim describes for a directory
ClaimedDate(fs) ==
    IF fs = NoFiles THEN Unknown
    ELSE LET run == FirstEightDigits(fs[1].name) IN
         IF run = <<>> \/ ~CalendarDate(run) THEN Unknown
         ELSE SubSeq(run, 1, 4) \o <<"-">> \o SubSeq(run, 5, 6)
                  \o <<"-">> \o SubSeq(run, 7, 8)

\* C23: the reference date is the first run of 8 digits of the file name as
\* YYYY-MM-DD when the run is a valid calendar date, and the "unknown" value
\* when the name has no such run, the run is no calendar date, or there is no
\* file.
C23_ReferenceDate ==
    out.fn = "get_reference_date" => out.val = ClaimedDate(files)

\* the same for the years from 1000 on
C23_FromYear1000 ==
    (out.fn = "get_reference_date" /\ files # NoFiles
        /\ FirstEightDigits(files[1].name) # <<>>
        /\ IntOf(SubSeq(FirstEightDigits(files[1].name), 1, 4)) \notin 1..999)
        => out.val = ClaimedDate(files)

\* the first stage of load_data the directory fails at, as the claim has it:
\* a file found, the file decoded, the required columns present, a column
\* other than the required ones present
FailingStage(fs) ==
    IF fs = NoFiles THEN "no_csv_file"
    ELSE IF ~ReadOk(fs[1]) THEN "read"
    ELSE IF Absent(fs[1]) # {} THEN "missing_columns"
    ELSE IF \A k \in 1..Len(fs[1].columns) : Strip(fs[1].columns[k]) \in RawMetaNames
    THEN "no_time_columns"
    ELSE "none"

ErrorKind(text) ==
    IF text = <<>> THEN "none"
    ELSE IF text[1] \in ReadErrors THEN "read"
    ELSE text[1]

\* C24: the error load_data returns is that of the first failing stage, in
\* the order file found, file decoded, required columns present, time columns
\* present; the no-time-columns error is returned exactly when all required
\* columns are present and no other column remains.
C24_StageOrder ==
    load_state # "not_called" => ErrorKind(error_msg.text) = FailingStage(files)

RenamedMetaNames == {renamed_meta_cols[i] : i \in 1..Len(renamed_meta_cols)}

\* C24 (as amended): the error load_data returns is that of the first failing
\* stage, in the order file found, file decoded, required columns present,
\* time columns present; the no-time-columns error is returned exactly when
\* all required columns are present and every other column bears one of the
\* two names the station and direction columns are renamed to.
C24_StagesInOrder ==
    load_state # "not_called" =>
        LET stage == FailingStage(files) IN
        IF stage \in {"no_csv_file", "read", "missing_columns"}
        THEN ErrorKind(error_msg.text) = stage
        ELSE ErrorKind(error_msg.text) =
                IF \A k \in 1..Len(TheFile.columns) :
                      Strip(TheFile.columns[k]) \in RawMetaNames \cup RenamedMetaNames
                THEN "no_time_columns"
                ELSE "none"

\* a file that euc-kr fails to read, lacks a required column and has no time
\* column: the error is the reading error
C24_Witness ==
    /\ load_state = "returned"
    /\ files # NoFiles
    /\ TheFile.enc = <<"decode_error", "error", "ok">>
    /\ Absent(TheFile) # {}
    /\ Len(TheFile.columns) = 4
    /\ error_msg.text = <<"read_error", "euc-kr">>

\* C25: calculate_commute_avg and calculate_evening_avg never return the
\* missing marker, and return 0 whenever their window holds no row with a
\* crowding value.
C25_WindowAverageDefined ==
    LET rows == filtered_df IN
    /\ out.fn = "calculate_commute_avg" =>
          /\ out.val # NaNMean
          /\ Commute(rows, out.arg[1]) \cap Valid(rows) = {} => out.val = Zero
    /\ out.fn = "calculate_evening_avg" =>
          /\ out.val # NaNMean
          /\ Evening(rows, out.arg[1]) \cap Valid(rows) = {} => out.val = Zero

\* C26: on a non-empty table holding a single line, the commute average,
\* evening average and maximum of that line's get_line_summary row equal
\* calculate_commute_avg, calculate_evening_avg and the value of
\* calculate_peak on the same table, for every include_9 and include_20.
C26_KpiMatchesLineSummary ==
    (/\ out.fn = "get_line_summary"
     /\ filtered_df # <<>>
     /\ Cardinality(LinesOf(filtered_df)) = 1)
    => /\ Len(out.val) = 1
       /\ out.val[1].commute_avg = calculate_commute_avg(filtered_df, out.arg[1])
       /\ out.val[1].evening_avg = calculate_evening_avg(filtered_df, out.arg[2])
       /\ out.val[1].peak = calculate_peak(filtered_df)[1]

\* C27: on a table with at least one crowding value, the rank-1 row of
\* get_peak_top10 and the first row of the station summary both hold the
\* value calculate_peak returns for that table, which is the largest
\* crowding value of the table.
LargestValue(rows) ==
    CHOOSE v \in {rows[i].crowding : i \in Valid(rows)} :
        \A i \in Valid(rows) : rows[i].crowding <= v

C27_PeakAgrees ==
    Valid(filtered_df) # {} =>
        /\ out.fn = "calculate_peak" => out.val[1] = LargestValue(filtered_df)
        /\ out.fn = "get_peak_top10" =>
              /\ Len(out.val) >= 1
              /\ out.val[1].rank = 1
              /\ out.val[1].peak = calculate_peak(filtered_df)[1]
              /\ out.val[1].peak = LargestValue(filtered_df)
        /\ out.fn = "get_station_full_summary" =>
              /\ Len(out.val) >= 1
              /\ out.val[1].peak = calculate_peak(filtered_df)[1]
              /\ out.val[1].peak = LargestValue(filtered_df)

\* the largest value belongs to the second of two groups, and the ranking
\* puts it first
C27_Witness ==
    /\ out.fn = "get_peak_top10"
    /\ Len(out.val) = 2
    /\ out.val[1].peak = 2
    /\ out.val[2].peak = 1
    /\ filtered_df[1].crowding = 1
    /\ calculate_peak(filtered_df)[1] = 2

C27_WitnessSummary ==
    /\ out.fn = "get_station_full_summary"
    /\ Len(out.val) = 2
    /\ out.val[1].peak = 2
    /\ out.val[2].peak = 1
    /\ filtered_df[1].crowding = 1

\* C28: every top-10 record of the report data holds the direction of its
\* group under the key of the direction column, and the renderer prints that
\* direction, never the placeholder, for a ranked station.
InReport == {"collect_report_data", "generate_pdf_report", "read", "os.remove", "done"}

C28_DirectionKept ==
    /\ out.fn \in InReport =>
          \A k \in {"peak", "commute", "evening"} :
              \A i \in 1..Len(out.val.report_data.top10[k]) :
                  LET record == out.val.report_data.top10[k][i] IN
                  /\ "direction" \in DOMAIN record
                  /\ \E j \in Positions(filtered_df) :
                        /\ filtered_df[j].direction = record.direction
                        /\ filtered_df[j].station_name = record.station_name
                        /\ filtered_df[j].line = record.line
    /\ out.fn = "generate_pdf_report" =>
          \A k \in {"peak", "commute", "evening"} :
              \A i \in 1..Len(out.val.printed[k]) :
                  out.val.printed[k][i] # NotAvailable

\* C29: the filtered table is the canonical rows whose day type, line and
\* direction belong to the selections and whose station name contains the
\* search text, in canonical order; an empty selection or an empty search
\* text restricts nothing.
Contains(text, pat) ==
    \E i \in 0..(Len(text) - Len(pat)) : SubSeq(text, i + 1, i + Len(pat)) = pat

Kept(r, days, lines, directions, station_search) ==
    /\ days = {} \/ r.day_type \in days
    /\ lines = {} \/ r.line \in lines
    /\ directions = {} \/ r.direction \in directions
    /\ station_search = <<>> \/ Contains(r.station_name, station_search)

C29_FilterSemantics ==
    [][(out.fn = "select" /\ out'.fn = "filter") =>
          filtered_df' = SelectSeq(df.rows,
                             LAMBDA r : Kept(r, out.arg[1], out.arg[2],
                                             out.arg[3], out.arg[4]))]_vars

\* C30: a report request that has ended, with success or with an exception,
\* has left no temporary PDF file on disk unless a delete call failed, and on
\* the success path the file is deleted only after its bytes were read.
C30_TempFileRemoved ==
    /\ (out.fn \in {"done", "failed"} /\ ~out.val.remove_failed) => ~out.val.on_disk
    /\ (out.fn = "os.remove" /\ ~out.val.on_disk) => out.val.pdf_bytes

====
